---- MODULE Spec2Model ----
(***************************************************************************)
(* AI.D Core API (src/main.py): the stop-scroll heuristic scorer, the LLM  *)
(* provider gateway and the request pipeline of the tool endpoints.        *)
(* Texts are strings; a character is a string of length one.               *)
(***************************************************************************)
EXTENDS Integers, Sequences, FiniteSets, TLC

(***************************************************************************)
(* Bounds of the model.                                                    *)
(***************************************************************************)
\* longest free prefix of a topic, in lexicon words
MaxHead == 2
\* most filler words appended to a topic
MaxPad == 26
\* the scores given to _scroll_level run from -MaxScore to MaxScore
MaxScore == 110
\* the scorer is called at most MaxCalls times in a row
MaxCalls == 3

\* the requests in flight at once where requests run concurrently
MaxInFlight == 2

(***************************************************************************)
(* Python values: Optional[str]                                            *)
(***************************************************************************)
None == [some |-> FALSE]
Some(s) == [some |-> TRUE, v |-> s]

\* `topic or ""`: None and the empty string are both falsy
OrEmpty(o) == IF o.some THEN o.v ELSE ""

(***************************************************************************)
(* str methods used by the scorer                                          *)
(***************************************************************************)
Ch(s, i) == SubSeq(s, i, i)

IsSpace(c) == c \in {" ", "\t", "\n"}

IsDigit(c) == c \in {"0", "1", "2", "3", "4", "5", "6", "7", "8", "9"}

RECURSIVE LStrip(_)
LStrip(s) == IF s # "" /\ IsSpace(Ch(s, 1)) THEN LStrip(SubSeq(s, 2, Len(s))) ELSE s

RECURSIVE RStrip(_)
RStrip(s) ==
    IF s # "" /\ IsSpace(Ch(s, Len(s))) THEN RStrip(SubSeq(s, 1, Len(s) - 1)) ELSE s

\* str.strip()
Strip(s) == RStrip(LStrip(s))

\* str.split() without arguments: the maximal runs of non-whitespace
RECURSIVE SplitFrom(_, _, _, _)
SplitFrom(s, i, cur, acc) ==
    IF i > Len(s)
    THEN IF cur = "" THEN acc ELSE Append(acc, cur)
    ELSE IF IsSpace(Ch(s, i))
         THEN SplitFrom(s, i + 1, "", IF cur = "" THEN acc ELSE Append(acc, cur))
         ELSE SplitFrom(s, i + 1, cur \o Ch(s, i), acc)

Split(s) == SplitFrom(s, 1, "", <<>>)

UpperChars == "ABCDEFGHIJKLMNOPQRSTUVWXYZÁÉÍÓÚÑ"
LowerChars == "abcdefghijklmnopqrstuvwxyzáéíóúñ"

UpperSet == {Ch(UpperChars, i) : i \in 1..Len(UpperChars)}

LowerOf == [c \in UpperSet |->
              Ch(LowerChars, CHOOSE i \in 1..Len(UpperChars) : Ch(UpperChars, i) = c)]

LowerChar(c) == IF c \in UpperSet THEN LowerOf[c] ELSE c

RECURSIVE LowerFrom(_, _)
LowerFrom(s, i) == IF i > Len(s) THEN "" ELSE LowerChar(Ch(s, i)) \o LowerFrom(s, i + 1)

\* str.lower()
Lower(s) == LowerFrom(s, 1)

\* `needle in hay`
Contains(hay, needle) ==
    \E i \in 1..(Len(hay) - Len(needle) + 1) : SubSeq(hay, i, i + Len(needle) - 1) = needle

(***************************************************************************)
(* The heuristic scorer.  In the notes the severity markers of the source  *)
(* (check mark, yellow circle, warning sign) are written [OK], [~], [!]    *)
(* and the en dash is written -.                                           *)
(***************************************************************************)
STRONG_WORDS ==
    << "error", "errores", "secreto", "secretos", "sistema", "sistemas", "ventas",
       "venta", "crecer", "growth", "escala", "escala tu negocio", "automatizar",
       "automatización", "automatizacion", "funnel", "embudo", "plan", "plan claro",
       "resultado", "resultados", "clientes reales", "conversiones", "conversión",
       "conversión real", "diagnóstico", "diagnostico", "audit", "auditoría",
       "auditoria" >>

SOFT_CTA ==
    << "comenta", "escribe", "pídeme", "pideme", "quieres", "descubre", "aprende",
       "guarda", "save" >>

FAST_FEED == {"instagram", "tiktok", "threads", "youtube"}

word_count(text) == Len(SelectSeq(Split(Strip(text)), LAMBDA w : w # ""))

\* a faulty variant of _count_strong_words: the text is searched as written,
\* not lower-cased
count_strong_words_cased(text) ==
    Cardinality({i \in 1..Len(STRONG_WORDS) : Contains(text, STRONG_WORDS[i])})

count_strong_words(text) ==
    LET lower == Lower(text)
    IN  Cardinality({i \in 1..Len(STRONG_WORDS) : Contains(lower, STRONG_WORDS[i])})

\* the notes the caller of the scorer holds after a call
VARIABLE details

\* a faulty variant of NewDetails: the list outlives the call (a module-level
\* list, or a mutable default argument), so a call starts from the notes of
\* the call before it
StaleDetails == details

\* the list a call starts from: `details: List[str] = []`
NewDetails == <<>>

\* score += pts; details.append(note)
Add(acc, pts, note) == [score |-> acc.score + pts, details |-> Append(acc.details, note)]

\* 1) Longitud del hook
LengthStep(acc, words) ==
    IF 4 <= words /\ words <= 10
    THEN Add(acc, 25, "[OK] Longitud clara (4-10 palabras). Buen ritmo para detener scroll.")
    ELSE IF 2 <= words /\ words <= 14
         THEN Add(acc, 15, "[~] Longitud aceptable, pero podría ser más directa.")
         ELSE Add(acc, 5, "[!] Hook muy largo o muy corto. Resta fuerza al stop scroll.")

\* 2) Numeros o datos concretos
NumberStep(acc, has_number) ==
    IF has_number
    THEN Add(acc, 10, "[OK] Incluye números/datos (ej. '3 pasos', '7 días'), esto suele captar atención.")
    ELSE Add(acc, 0, "[~] No hay números ni datos concretos. Podrías sumar 'X pasos', 'Y días', etc.")

\* 3) Forma de pregunta
QuestionStep(acc, has_question) ==
    IF has_question
    THEN Add(acc, 10, "[OK] Está formulado como pregunta. Invita a frenar el scroll para responder mentalmente.")
    ELSE Add(acc, 0, "[~] No es una pregunta. A veces una pregunta directa aumenta el stop scroll.")

\* a faulty variant of StrongStep: `>` where the source has `>=`, so two
\* matches count as one
StrongStepStrict(acc, strong_count) ==
    IF strong_count > 2
    THEN Add(acc, 18, "[OK] Usa varias palabras fuertes (errores, sistema, resultados, etc.).")
    ELSE IF strong_count >= 1
         THEN Add(acc, 10, "[~] Usa al menos una palabra fuerte. Podrías reforzar con otra más.")
         ELSE Add(acc, 4, "[!] Falta vocabulario que active decisión (errores, sistema, resultados...).")

\* 4) Palabras fuertes
StrongStep(acc, strong_count) ==
    IF strong_count >= 2
    THEN Add(acc, 18, "[OK] Usa varias palabras fuertes (errores, sistema, resultados, etc.).")
    ELSE IF strong_count = 1
         THEN Add(acc, 10, "[~] Usa al menos una palabra fuerte. Podrías reforzar con otra más.")
         ELSE Add(acc, 4, "[!] Falta vocabulario que active decisión (errores, sistema, resultados...).")

\* a faulty variant of BrevityStep: `<` where the source has `<=`
BrevityStepStrict(acc, words) ==
    IF words < 18
    THEN Add(acc, 12, "[OK] Frase relativamente corta. Se lee en un vistazo en el feed.")
    ELSE IF words < 25
         THEN Add(acc, 6, "[~] Un poco larga. Podría perder fuerza en pantallas móviles.")
         ELSE Add(acc, 2, "[!] Demasiado texto para un primer impacto. Conviene recortar.")

\* 5) Claridad global (tamano total)
BrevityStep(acc, words) ==
    IF words <= 18
    THEN Add(acc, 12, "[OK] Frase relativamente corta. Se lee en un vistazo en el feed.")
    ELSE IF words <= 25
         THEN Add(acc, 6, "[~] Un poco larga. Podría perder fuerza en pantallas móviles.")
         ELSE Add(acc, 2, "[!] Demasiado texto para un primer impacto. Conviene recortar.")

\* 6) CTA suave dentro del texto
HasCta(lower) == \E i \in 1..Len(SOFT_CTA) : Contains(lower, SOFT_CTA[i])

\* a faulty variant of CtaStep: a hook without a call to action loses the 8
\* points one with it gains
CtaStepPenalised(acc, lower) ==
    IF HasCta(lower)
    THEN Add(acc, 8, "[OK] Hay un llamado suave a la acción (CTA) dentro del hook.")
    ELSE Add(acc, -8, "[~] No se percibe un CTA claro. Recuerda la mecánica de palabra clave.")

CtaStep(acc, lower) ==
    IF HasCta(lower)
    THEN Add(acc, 8, "[OK] Hay un llamado suave a la acción (CTA) dentro del hook.")
    ELSE Add(acc, 0, "[~] No se percibe un CTA claro. Recuerda la mecánica de palabra clave.")

\* a faulty variant of PlatformStep: the LinkedIn bonus has no upper limit on
\* the number of words (`6 <= words` where the source has `6 <= words <= 18`)
PlatformStepUnbounded(acc, words, platform) ==
    IF platform \in FAST_FEED
    THEN IF words <= 14
         THEN Add(acc, 8, "[OK] Buen tamaño para feeds rápidos (Instagram, TikTok, Threads, Shorts).")
         ELSE Add(acc, -5, "[!] Para Instagram/TikTok/Threads conviene algo más corto y directo.")
    ELSE IF platform = "linkedin"
         THEN IF 6 <= words
              THEN Add(acc, 6, "[OK] Para LinkedIn, buen equilibrio entre claridad y contexto.")
              ELSE Add(acc, 0, "[~] En LinkedIn puedes sumar un poco más de contexto estratégico.")
         ELSE acc

\* 7) Ajuste por plataforma
PlatformStep(acc, words, platform) ==
    IF platform \in FAST_FEED
    THEN IF words <= 14
         THEN Add(acc, 8, "[OK] Buen tamaño para feeds rápidos (Instagram, TikTok, Threads, Shorts).")
         ELSE Add(acc, -5, "[!] Para Instagram/TikTok/Threads conviene algo más corto y directo.")
    ELSE IF platform = "linkedin"
         THEN IF 6 <= words /\ words <= 18
              THEN Add(acc, 6, "[OK] Para LinkedIn, buen equilibrio entre claridad y contexto.")
              ELSE IF words < 6
                   THEN Add(acc, 0, "[~] En LinkedIn puedes sumar un poco más de contexto estratégico.")
                   ELSE acc
         ELSE acc

\* Normalizar 0-100
Clamp(score) == IF score < 0 THEN 0 ELSE IF score > 100 THEN 100 ELSE score

\* the two `if`s that bring the score into 0..100; return score, details
Clamped(acc) == [score |-> Clamp(acc.score), details |-> acc.details]

HasNumber(text) == \E i \in 1..Len(text) : IsDigit(Ch(text, i))

HasQuestion(text) == Contains(text, "?") \/ Contains(text, "¿")

\* a faulty variant of NoText: -1 returned as the mark of "no text"
NoTextSentinel ==
    [score |-> -1,
     details |-> Append(NewDetails,
                        "No hay texto para evaluar. Escribe al menos una frase clara.")]

\* details.append("No hay texto ..."); return 0, details
NoText ==
    [score |-> 0,
     details |-> Append(NewDetails,
                        "No hay texto para evaluar. Escribe al menos una frase clara.")]

\* the seven steps and the normalisation: from `has_number = ...` to the return
Steps(text, words, platform) ==
    LET a1 == LengthStep([score |-> 0, details |-> NewDetails], words)
        a2 == NumberStep(a1, HasNumber(text))
        a3 == QuestionStep(a2, HasQuestion(text))
        a4 == StrongStep(a3, count_strong_words(text))
        a5 == BrevityStep(a4, words)
        a6 == CtaStep(a5, Lower(text))
        a7 == PlatformStep(a6, words, platform)
    IN  Clamped(a7)

\* a faulty variant of Scored: the early return for `words == 0` is missing
ScoredWithoutReturn(text, words, platform) == Steps(text, words, platform)

\* the scorer from `words = _word_count(text)` on
Scored(text, words, platform) ==
    IF words = 0 THEN NoText ELSE Steps(text, words, platform)

\* the scorer from `text = (topic or "").strip()` on
Stripped(text, platform) == Scored(text, word_count(text), platform)

evaluate_scroll_stop(topic, platform) == Stripped(Strip(OrEmpty(topic)), platform)

\* a faulty variant of _scroll_level: `>` where the source has `>=`
scroll_level_strict(score) ==
    IF score > 80 THEN "ALTO" ELSE IF score > 55 THEN "MEDIO" ELSE "BAJO"

scroll_level(score) ==
    IF score >= 80 THEN "ALTO" ELSE IF score >= 55 THEN "MEDIO" ELSE "BAJO"

\* a faulty variant of _scroll_advice: `>` where the source has `>=`, so the
\* paragraph of a score of 80 or 55 is not the one of its level
scroll_advice_strict(score, platform) ==
    LET base == IF platform = "linkedin"
                THEN "LinkedIn premia claridad, datos y contexto de negocio. "
                ELSE "Esta red premia hooks claros, emocionales y muy directos. "
    IN  IF score > 80
        THEN base \o "Este tema tiene muy buen potencial de detener el scroll. Puedes pasar a estructurar el resto del post (caption, slides o guion) y definir tu palabra clave del funnel."
        ELSE IF score > 55
             THEN base \o "El stop scroll es aceptable, pero con 1-2 ajustes (hacerlo más corto, sumar un número o una promesa concreta) podrías llevarlo a un nivel alto."
             ELSE base \o "El hook es débil para frenar el scroll. Conviene reformularlo: hazlo más corto, convierte la idea en pregunta o agrega una promesa de resultado clara."

scroll_advice(score, platform) ==
    LET base == IF platform = "linkedin"
                THEN "LinkedIn premia claridad, datos y contexto de negocio. "
                ELSE "Esta red premia hooks claros, emocionales y muy directos. "
    IN  IF score >= 80
        THEN base \o "Este tema tiene muy buen potencial de detener el scroll. Puedes pasar a estructurar el resto del post (caption, slides o guion) y definir tu palabra clave del funnel."
        ELSE IF score >= 55
             THEN base \o "El stop scroll es aceptable, pero con 1-2 ajustes (hacerlo más corto, sumar un número o una promesa concreta) podrías llevarlo a un nivel alto."
             ELSE base \o "El hook es débil para frenar el scroll. Conviene reformularlo: hazlo más corto, convierte la idea en pregunta o agrega una promesa de resultado clara."

(***************************************************************************)
(* JSON values, as json.loads and httpx's r.json() build them: None, bool, *)
(* int, str, list, dict.                                                   *)
(***************************************************************************)
JNull == [t |-> "null"]
JBool(b) == [t |-> "bool", b |-> b]
JNum(n) == [t |-> "num", n |-> n]
JStr(s) == [t |-> "str", s |-> s]
JList(xs) == [t |-> "list", xs |-> xs]
JObj(f) == [t |-> "obj", f |-> f]

\* a dict keeps its keys in insertion order: a sequence of <<key, value>>
EmptyDict == <<>>

Keys(d) == {d.f[i][1] : i \in 1..Len(d.f)}

HasKey(d, k) == d.t = "obj" /\ k \in Keys(d)

\* d[k], for a key d has
Lookup(d, k) == d.f[CHOOSE i \in 1..Len(d.f) : d.f[i][1] = k][2]

\* d[k] = v
DictSet(f, k, v) ==
    IF \E i \in 1..Len(f) : f[i][1] = k
    THEN [i \in 1..Len(f) |-> IF f[i][1] = k THEN <<k, v>> ELSE f[i]]
    ELSE Append(f, <<k, v>>)

Digits == "0123456789"

DigitVal(c) == (CHOOSE i \in 1..10 : Ch(Digits, i) = c) - 1

Fail == [ok |-> FALSE]

Ok(v, i) == [ok |-> TRUE, v |-> v, i |-> i]

IsJsonSpace(c) == c \in {" ", "\t", "\n", "\r"}

RECURSIVE SkipWs(_, _)
SkipWs(s, i) == IF i <= Len(s) /\ IsJsonSpace(Ch(s, i)) THEN SkipWs(s, i + 1) ELSE i

\* the characters of a string literal after its opening quote
RECURSIVE ScanStr(_, _, _)
ScanStr(s, i, acc) ==
    IF i > Len(s) THEN Fail
    ELSE LET c == Ch(s, i)
         IN  IF c = "\"" THEN Ok(JStr(acc), i + 1)
             ELSE IF c = "\\"
                  THEN IF i + 1 <= Len(s) /\ Ch(s, i + 1) \in {"\"", "\\", "/"}
                       THEN ScanStr(s, i + 2, acc \o Ch(s, i + 1))
                       ELSE IF i + 1 <= Len(s) /\ Ch(s, i + 1) = "n"
                            THEN ScanStr(s, i + 2, acc \o "\n")
                            ELSE Fail
                  ELSE IF c \in {"\n", "\t", "\r"} THEN Fail
                       ELSE ScanStr(s, i + 1, acc \o c)

RECURSIVE ScanInt(_, _, _)
ScanInt(s, i, acc) ==
    IF i <= Len(s) /\ IsDigit(Ch(s, i))
    THEN ScanInt(s, i + 1, 10 * acc + DigitVal(Ch(s, i)))
    ELSE Ok(JNum(acc), i)

\* an integer literal: -?(0|[1-9][0-9]*); fractions and exponents are outside
\* the texts of this model
ScanNumber(s, i) ==
    LET neg == Ch(s, i) = "-"
        j == IF neg THEN i + 1 ELSE i
    IN  IF j > Len(s) \/ ~IsDigit(Ch(s, j)) THEN Fail
        ELSE LET r == IF Ch(s, j) = "0" THEN Ok(JNum(0), j + 1) ELSE ScanInt(s, j, 0)
             IN  IF neg THEN Ok(JNum(0 - r.v.n), r.i) ELSE r

StartsAt(s, i, lit) == i + Len(lit) - 1 <= Len(s) /\ SubSeq(s, i, i + Len(lit) - 1) = lit

RECURSIVE ParseValue(_, _)
RECURSIVE ParseElems(_, _, _)
RECURSIVE ParseMembers(_, _, _)

\* the elements of an array after "[" or ",": i is at the next element
ParseElems(s, i, acc) ==
    LET e == ParseValue(s, i)
    IN  IF ~e.ok THEN Fail
        ELSE LET j == SkipWs(s, e.i)
             IN  IF j > Len(s) THEN Fail
                 ELSE IF Ch(s, j) = "]" THEN Ok(JList(Append(acc, e.v)), j + 1)
                 ELSE IF Ch(s, j) = "," THEN ParseElems(s, SkipWs(s, j + 1), Append(acc, e.v))
                 ELSE Fail

\* the members of an object after "{" or ",": i is at the next key; a repeated
\* key keeps its last value
ParseMembers(s, i, acc) ==
    IF i > Len(s) \/ Ch(s, i) # "\"" THEN Fail
    ELSE LET k == ScanStr(s, i + 1, "")
         IN  IF ~k.ok THEN Fail
             ELSE LET c == SkipWs(s, k.i)
                  IN  IF c > Len(s) \/ Ch(s, c) # ":" THEN Fail
                      ELSE LET e == ParseValue(s, SkipWs(s, c + 1))
                           IN  IF ~e.ok THEN Fail
                               ELSE LET j == SkipWs(s, e.i)
                                        d == DictSet(acc, k.v.s, e.v)
                                    IN  IF j > Len(s) THEN Fail
                                        ELSE IF Ch(s, j) = "}" THEN Ok(JObj(d), j + 1)
                                        ELSE IF Ch(s, j) = ","
                                             THEN ParseMembers(s, SkipWs(s, j + 1), d)
                                             ELSE Fail

ParseValue(s, i) ==
    IF i > Len(s) THEN Fail
    ELSE LET c == Ch(s, i)
         IN  IF c = "{"
             THEN LET j == SkipWs(s, i + 1)
                  IN  IF j <= Len(s) /\ Ch(s, j) = "}" THEN Ok(JObj(EmptyDict), j + 1)
                      ELSE ParseMembers(s, j, EmptyDict)
             ELSE IF c = "["
             THEN LET j == SkipWs(s, i + 1)
                  IN  IF j <= Len(s) /\ Ch(s, j) = "]" THEN Ok(JList(<<>>), j + 1)
                      ELSE ParseElems(s, j, <<>>)
             ELSE IF c = "\"" THEN ScanStr(s, i + 1, "")
             ELSE IF c = "-" \/ IsDigit(c) THEN ScanNumber(s, i)
             ELSE IF StartsAt(s, i, "null") THEN Ok(JNull, i + 4)
             ELSE IF StartsAt(s, i, "true") THEN Ok(JBool(TRUE), i + 4)
             ELSE IF StartsAt(s, i, "false") THEN Ok(JBool(FALSE), i + 5)
             ELSE Fail

\* one value r and nothing but blanks after it
Document(s, r) ==
    IF r.ok /\ SkipWs(s, r.i) > Len(s)
    THEN [ok |-> TRUE, v |-> r.v]
    ELSE [ok |-> FALSE, exc |-> "JSONDecodeError"]

\* json.loads(raw): raw is what the gateway returned.  Anything but a str is a
\* TypeError, a text that is not one JSON document a JSONDecodeError.
json_loads(raw) ==
    IF raw.t # "str" THEN [ok |-> FALSE, exc |-> "TypeError"]
    ELSE Document(raw.s, ParseValue(raw.s, SkipWs(raw.s, 1)))

(***************************************************************************)
(* Python operations on these values.  An operation that can raise gives   *)
(* Val(v) or Raised(exception).                                            *)
(***************************************************************************)
Val(v) == [ok |-> TRUE, v |-> v]

Raised(e) == [ok |-> FALSE, exc |-> e]

\* x[k] for a str key k
GetItem(x, k) ==
    IF x.t = "obj" THEN IF HasKey(x, k) THEN Val(Lookup(x, k)) ELSE Raised("KeyError")
    ELSE Raised("TypeError")

\* x[0]
First(x) ==
    IF x.t = "list" THEN IF Len(x.xs) > 0 THEN Val(x.xs[1]) ELSE Raised("IndexError")
    ELSE IF x.t = "str" THEN IF Len(x.s) > 0 THEN Val(JStr(Ch(x.s, 1))) ELSE Raised("IndexError")
    ELSE IF x.t = "obj" THEN Raised("KeyError")
    ELSE Raised("TypeError")

\* x.get(k, default): only a dict has .get
DictGet(x, k, default) ==
    IF x.t = "obj" THEN Val(IF HasKey(x, k) THEN Lookup(x, k) ELSE default)
    ELSE Raised("AttributeError")

\* bool(x)
Truthy(x) ==
    CASE x.t = "null" -> FALSE
      [] x.t = "bool" -> x.b
      [] x.t = "num" -> x.n # 0
      [] x.t = "str" -> x.s # ""
      [] x.t = "list" -> x.xs # <<>>
      [] x.t = "obj" -> x.f # <<>>

RECURSIVE NatToStr(_)
NatToStr(n) == IF n < 10 THEN Ch(Digits, n + 1)
               ELSE NatToStr(n \div 10) \o Ch(Digits, (n % 10) + 1)

IntToStr(n) == IF n < 0 THEN "-" \o NatToStr(0 - n) ELSE NatToStr(n)

\* repr of a str: single quotes, double quotes when it holds a single quote and
\* no double quote (the texts of this model hold no backslash or control
\* character inside a list or dict)
StrRepr(s) ==
    IF Contains(s, "'") /\ ~Contains(s, "\"") THEN "\"" \o s \o "\"" ELSE "'" \o s \o "'"

RECURSIVE PyRepr(_)
RECURSIVE ReprItems(_, _)
RECURSIVE ReprPairs(_, _)

ReprItems(xs, i) ==
    IF i > Len(xs) THEN ""
    ELSE PyRepr(xs[i]) \o (IF i < Len(xs) THEN ", " ELSE "") \o ReprItems(xs, i + 1)

ReprPairs(f, i) ==
    IF i > Len(f) THEN ""
    ELSE StrRepr(f[i][1]) \o ": " \o PyRepr(f[i][2])
         \o (IF i < Len(f) THEN ", " ELSE "") \o ReprPairs(f, i + 1)

PyRepr(x) ==
    CASE x.t = "null" -> "None"
      [] x.t = "bool" -> IF x.b THEN "True" ELSE "False"
      [] x.t = "num" -> IntToStr(x.n)
      [] x.t = "str" -> StrRepr(x.s)
      [] x.t = "list" -> "[" \o ReprItems(x.xs, 1) \o "]"
      [] x.t = "obj" -> "{" \o ReprPairs(x.f, 1) \o "}"

\* str(x), and x inside an f-string
PyStr(x) == IF x.t = "str" THEN x.s ELSE PyRepr(x)

\* the text of an int literal, as int() and float() read it: blanks around,
\* an optional sign, digits
IsIntText(s0) ==
    LET s == Strip(s0)
        j == IF s # "" /\ Ch(s, 1) \in {"-", "+"} THEN 2 ELSE 1
    IN  /\ j <= Len(s)
        /\ \A i \in j..Len(s) : IsDigit(Ch(s, i))

IntTextVal(s0) ==
    LET s == Strip(s0)
        neg == Ch(s, 1) = "-"
        j == IF Ch(s, 1) \in {"-", "+"} THEN 2 ELSE 1
        n == ScanInt(s, j, 0).v.n
    IN  IF neg THEN 0 - n ELSE n

\* int(x)
PyInt(x) ==
    CASE x.t = "num" -> Val(x.n)
      [] x.t = "bool" -> Val(IF x.b THEN 1 ELSE 0)
      [] x.t = "str" -> IF IsIntText(x.s) THEN Val(IntTextVal(x.s)) ELSE Raised("ValueError")
      [] OTHER -> Raised("TypeError")

\* float(x); the numbers of this model are whole
PyFloat(x) == PyInt(x)

\* [str(a) for a in x]: a list gives its elements, a str its characters, a
\* dict its keys; nothing else is iterable
StrList(x) ==
    CASE x.t = "list" -> Val([i \in 1..Len(x.xs) |-> PyStr(x.xs[i])])
      [] x.t = "str" -> Val([i \in 1..Len(x.s) |-> Ch(x.s, i)])
      [] x.t = "obj" -> Val([i \in 1..Len(x.f) |-> x.f[i][1]])
      [] OTHER -> Raised("TypeError")

\* list(x), the items a for loop visits
Items(x) ==
    CASE x.t = "list" -> Val(x.xs)
      [] x.t = "str" -> Val([i \in 1..Len(x.s) |-> JStr(Ch(x.s, i))])
      [] x.t = "obj" -> Val([i \in 1..Len(x.f) |-> JStr(x.f[i][1])])
      [] OTHER -> Raised("TypeError")

(***************************************************************************)
(* The provider gateway.  A network exchange ends in one of:               *)
(*   [kind |-> "error"]      transport error or timeout: client.post raises *)
(*   [kind |-> "response", status |-> n, json |-> Val(body) or Raised(..)]  *)
(***************************************************************************)
NetError == [kind |-> "error"]

NetResponse(status, json) == [kind |-> "response", status |-> status, json |-> json]

\* r.raise_for_status(); data = r.json()
ResponseData(net) ==
    IF net.kind = "error" THEN Raised("TransportError")
    ELSE IF net.status < 200 \/ net.status >= 300 THEN Raised("HTTPStatusError")
    ELSE net.json

\* data["choices"][0]["message"]["content"]
ChoicesContent(data) ==
    LET a == GetItem(data, "choices")
    IN  IF ~a.ok THEN a
        ELSE LET b == First(a.v)
             IN  IF ~b.ok THEN b
                 ELSE LET c == GetItem(b.v, "message")
                      IN  IF ~c.ok THEN c ELSE GetItem(c.v, "content")

\* a faulty variant of CatchNone: no `except`, the exception goes on to the caller
Propagate(x) == x

\* except Exception: return None
CatchNone(x) == IF x.ok THEN x ELSE Val(JNull)

\* _call_openai_chat after the POST: the body of its try
OpenAIChatTry(net) ==
    LET data == ResponseData(net)
    IN  IF ~data.ok THEN data ELSE ChoicesContent(data.v)

call_openai_chat(net) == CatchNone(OpenAIChatTry(net))

\* a faulty variant of LocalChatTry: a fourth shape is guessed, the text is
\* also looked for under the key "response"
LocalChatTryGuessing(net) ==
    LET data == ResponseData(net)
    IN  IF ~data.ok THEN data
        ELSE LET d == data.v
             IN  IF d.t = "obj"
                 THEN IF HasKey(d, "choices") THEN ChoicesContent(d)
                      ELSE IF /\ HasKey(d, "message")
                              /\ Lookup(d, "message").t = "obj"
                              /\ HasKey(Lookup(d, "message"), "content")
                           THEN Val(Lookup(Lookup(d, "message"), "content"))
                           ELSE IF HasKey(d, "content") THEN Val(Lookup(d, "content"))
                                ELSE IF HasKey(d, "response") THEN Val(Lookup(d, "response"))
                                     ELSE Val(JNull)
                 ELSE Val(JNull)

\* _call_local_chat after the POST: the body of its try
LocalChatTry(net) ==
    LET data == ResponseData(net)
    IN  IF ~data.ok THEN data
        ELSE LET d == data.v
             IN  IF d.t = "obj"
                 THEN IF HasKey(d, "choices") THEN ChoicesContent(d)
                      ELSE IF /\ HasKey(d, "message")
                              /\ Lookup(d, "message").t = "obj"
                              /\ HasKey(Lookup(d, "message"), "content")
                           THEN Val(Lookup(Lookup(d, "message"), "content"))
                           ELSE IF HasKey(d, "content") THEN Val(Lookup(d, "content"))
                                ELSE Val(JNull)
                 ELSE Val(JNull)

call_local_chat(net) == CatchNone(LocalChatTry(net))

VARIABLES
    \* the scorer called on its own: input, then ScrollStopResponse's fields
    topic, platform, score, level, advice, spc,
    \* the calls of the scorer so far, each with its arguments and its result
    log,
    \* the process-wide configuration, read from the environment at import
    OPENAI_API_KEY, DEFAULT_LANG, LLM_PROVIDER, LOCAL_LLM_URL, LOCAL_LLM_MODEL,
    \* the installed pydantic: version 2 refuses a number for a str field,
    \* version 1 turns it into its text
    pydantic_v2,
    \* the model argument the gateway's backends are called with
    model,
    \* per HTTP request: where its handler is, its body, the POST it awaits,
    \* what the gateway returned to it, its response, and how often it entered
    \* the gateway and the network
    pc, req, post, outcome, got, resp, gateway_calls, net_calls

svars == <<topic, platform, score, details, level, advice, spc, log>>

cvars == <<OPENAI_API_KEY, DEFAULT_LANG, LLM_PROVIDER, LOCAL_LLM_URL, LOCAL_LLM_MODEL,
           pydantic_v2, model>>

rvars == <<pc, req, post, outcome, got, resp, gateway_calls, net_calls>>

vars == <<svars, cvars, rvars>>

(***************************************************************************)
(* Responses.  A handler ends by returning a response model (HTTP 200) or  *)
(* by letting an exception escape (FastAPI answers 500).  term names the   *)
(* return statement by the state of the pipeline it stands for.            *)
(***************************************************************************)
Resp(term, body) == [status |-> 200, term |-> term, body |-> body]

Fault(e) == [status |-> 500, term |-> "FAULT", exc |-> e]

NoResp == [status |-> 0, term |-> "NONE"]

\* the gateway has not returned yet
Pending == [pending |-> TRUE]

\* str(e): RuntimeError carries the handler's own message; the message of any
\* other exception is stood for by the name of its type
ExcText(e) == IF e = "RuntimeError" THEN "LLM sin respuesta" ELSE e

\* the first exception among results evaluated in this order, if any
RECURSIVE FirstRaised(_, _)
FirstRaised(rs, i) ==
    IF i > Len(rs) THEN Val(TRUE) ELSE IF ~rs[i].ok THEN rs[i] ELSE FirstRaised(rs, i + 1)

\* result, unless an operation evaluated before it raised
Unless(bad, result) == IF bad.ok THEN result ELSE bad

\* Step applied to what g gave, unless g raised
Then(g, Step(_)) == IF g.ok THEN Step(g.v) ELSE g

\* pydantic's validation of a value given for a field declared `str`
StrField(v) ==
    IF v.t = "str" THEN Val(v.s)
    ELSE IF v.t \in {"num", "bool"} /\ ~pydantic_v2 THEN Val(PyStr(v))
    ELSE Raised("ValidationError")

\* `if LLM_PROVIDER == "openai" and not OPENAI_API_KEY`
Unconfigured == LLM_PROVIDER = "openai" /\ OrEmpty(OPENAI_API_KEY) = ""

\* request.language or DEFAULT_LANG or "es"
Lang(rq) ==
    IF OrEmpty(rq.language) # "" THEN rq.language.v
    ELSE IF DEFAULT_LANG # "" THEN DEFAULT_LANG ELSE "es"

(***************************************************************************)
(* GET /: the health report                                                *)
(***************************************************************************)
root ==
    [status |-> "ok", name |-> "AI.D Core API", version |-> "1.0.0",
     modes |-> <<"adai", "external">>, default_lang |-> DEFAULT_LANG,
     llm_configured |-> IF LLM_PROVIDER = "openai" THEN OrEmpty(OPENAI_API_KEY) # "" ELSE TRUE,
     llm_provider |-> LLM_PROVIDER,
     local_llm_url |-> IF LLM_PROVIDER = "local" THEN Some(LOCAL_LLM_URL) ELSE None]

(***************************************************************************)
(* POST /chat                                                              *)
(***************************************************************************)
\* ChatResponse(reply=llm_reply, ..., fallback=False), validated
ChatResponse(rq, reply) ==
    IF ~reply.ok THEN Fault(reply.exc)
    ELSE Resp("TYPED_RESPONSE",
              [reply |-> reply.v, mode |-> rq.mode, used_language |-> Lang(rq),
               fallback |-> FALSE])

\* chat after `llm_reply = await call_llm(...)`; g is what the call gave
chat_finish(rq, g) ==
    IF ~g.ok THEN Fault(g.exc)
    ELSE IF g.v.t = "null"
    THEN Resp("ERROR_FALLBACK",
              [reply |-> "Hola, soy AI.D en modo básico (sin modelo configurado o con error de conexión). Cuéntame sobre tu contexto y lo que quieres lograr, y te ayudo a ordenar tus próximos 3 pasos con lo que sé hasta ahora.",
               mode |-> rq.mode, used_language |-> Lang(rq), fallback |-> TRUE])
    ELSE ChatResponse(rq, StrField(g.v))

(***************************************************************************)
(* POST /api/aid-chat                                                      *)
(***************************************************************************)
aid_chat_degraded(rq) ==
    Resp("DEGRADED_RESPONSE",
         [reply |-> "Ahora mismo AI.D no tiene configurada la clave de OpenAI. Pídele al equipo que revise la variable OPENAI_API_KEY en el servidor."])

\* aid_chat after `reply = await call_llm_messages(...)`
aid_chat_finish(rq, g) ==
    IF ~g.ok THEN Fault(g.exc)
    ELSE IF g.v.t = "null"
    THEN Resp("ERROR_FALLBACK",
              [reply |-> "No pude conectar con el modelo de IA en este momento. Si necesitas ayuda urgente, te recomiendo contactar directamente con MKT 360."])
    ELSE IF g.v.t # "str" THEN Fault("AttributeError")
    ELSE Resp("TYPED_RESPONSE", [reply |-> Strip(g.v.s)])

(***************************************************************************)
(* The tool endpoints: one handler each, all of the same shape             *)
(*     if unconfigured: return degraded                                    *)
(*     try:                                                                *)
(*         raw = await call_llm_messages(...)                              *)
(*         if raw is None: raise RuntimeError                              *)
(*         try: parsed = json.loads(raw)                                   *)
(*         except Exception: return carrier                                *)
(*         return typed                                                    *)
(*     except Exception: return fallback                                   *)
(* degraded, carrier, typed and fallback are the handler's own.            *)
(***************************************************************************)

\* ---- POST /api/ads/optimizer ----
ads_optimizer_degraded(rq) ==
    Val([summary |-> "AI.D no tiene configurada la clave de OpenAI en el servidor. Configura OPENAI_API_KEY para activar el optimizador de campañas.",
         recommended_strategy |-> "", budget_distribution |-> <<>>, audiences |-> <<>>,
         creatives |-> <<>>, ctas |-> <<>>])

ads_optimizer_carrier(rq, raw) ==
    Then(StrField(raw), LAMBDA text :
        Val([summary |-> "Propuesta de estrategia (texto libre):",
                  recommended_strategy |-> text, budget_distribution |-> <<>>,
                  audiences |-> <<>>, creatives |-> <<>>, ctas |-> <<>>]))

\* the loop `for item in items: try: out.append(Make(item)) except: continue`;
\* Make also gets len(out)
AppendIfOk(out, m) == IF m.ok THEN Append(out, m.v) ELSE out

RECURSIVE Collect(_, _, _, _)
Collect(Make(_, _), items, i, out) ==
    IF i > Len(items) THEN out
    ELSE Collect(Make, items, i + 1, AppendIfOk(out, Make(items[i], Len(out))))

\* `if not out: out = [<one default block>]`
IfEmpty(out, dflt) == IF out = <<>> THEN dflt ELSE out

\* str(parsed.get(k, dflt))
StrVal(x) == Val(PyStr(x))

StrOf(parsed, k, dflt) == Then(DictGet(parsed, k, JStr(dflt)), StrVal)

\* [str(a) for a in parsed.get(k, [])]
StrListOf(parsed, k) == Then(DictGet(parsed, k, JList(<<>>)), StrList)

\* list(parsed.get(k, []))
ItemsOf(parsed, k) == Then(DictGet(parsed, k, JList(<<>>)), Items)

\* int(parsed.get(k, 0)) and float(parsed.get(k, 0.0))
IntOf(parsed, k) == Then(DictGet(parsed, k, JNum(0)), PyInt)

FloatOf(parsed, k) == Then(DictGet(parsed, k, JNum(0)), PyFloat)

\* BudgetSplit(platform=str(item.get("platform", "Sin plataforma")),
\*             percentage=float(item.get("percentage", 0)))
BudgetSplit(item, n) ==
    LET pl == StrOf(item, "platform", "Sin plataforma")
        percentage == FloatOf(item, "percentage")
    IN  Unless(FirstRaised(<<pl, percentage>>, 1),
               Val([platform |-> pl.v, percentage |-> percentage.v]))

ads_optimizer_typed(rq, parsed) ==
    LET items == ItemsOf(parsed, "budget_distribution")
        summary == StrOf(parsed, "summary", "")
        strategy == StrOf(parsed, "recommended_strategy", "")
        audiences == StrListOf(parsed, "audiences")
        creatives == StrListOf(parsed, "creatives")
        ctas == StrListOf(parsed, "ctas")
    IN  Unless(FirstRaised(<<items, summary, strategy, audiences, creatives, ctas>>, 1),
        Val([summary |-> summary.v, recommended_strategy |-> strategy.v,
                  budget_distribution |-> Collect(BudgetSplit, items.v, 1, <<>>),
                  audiences |-> audiences.v, creatives |-> creatives.v, ctas |-> ctas.v]))

ads_optimizer_fallback(rq, e) ==
    [summary |-> "No se pudo conectar con el modelo de IA para generar la estrategia. Intenta de nuevo en unos minutos o revisa la configuración del modelo.",
     recommended_strategy |-> "", budget_distribution |-> <<>>, audiences |-> <<>>,
     creatives |-> <<>>, ctas |-> <<>>]

\* ---- POST /api/content/analyzer ----
content_analyzer_degraded(rq) ==
    Val([summary |-> "AI.D no tiene clave de OpenAI configurada.", strengths |-> <<>>,
         weaknesses |-> <<>>, recommendations |-> <<>>, optimized_caption |-> "",
         keyword_gaps |-> <<>>, performance_score |-> 0, ad_recommendation |-> "No disponible."])

content_analyzer_carrier(rq, raw) ==
    Then(StrField(raw), LAMBDA text :
        Val([summary |-> "Resultado sin formato JSON:", strengths |-> <<>>,
                  weaknesses |-> <<>>, recommendations |-> <<>>,
                  optimized_caption |-> text, keyword_gaps |-> <<>>,
                  performance_score |-> 0, ad_recommendation |-> "No se pudo evaluar."]))

content_analyzer_typed(rq, parsed) ==
    LET summary == StrOf(parsed, "summary", "")
        strengths == StrListOf(parsed, "strengths")
        weaknesses == StrListOf(parsed, "weaknesses")
        recommendations == StrListOf(parsed, "recommendations")
        caption == StrOf(parsed, "optimized_caption", "")
        gaps == StrListOf(parsed, "keyword_gaps")
        perf == IntOf(parsed, "performance_score")
        ad == StrOf(parsed, "ad_recommendation", "")
    IN  Unless(FirstRaised(<<summary, strengths, weaknesses, recommendations, caption, gaps, perf, ad>>, 1),
        Val([summary |-> summary.v, strengths |-> strengths.v,
                  weaknesses |-> weaknesses.v, recommendations |-> recommendations.v,
                  optimized_caption |-> caption.v, keyword_gaps |-> gaps.v,
                  performance_score |-> perf.v, ad_recommendation |-> ad.v]))

content_analyzer_fallback(rq, e) ==
    [summary |-> "Error al conectar con la IA.", strengths |-> <<>>, weaknesses |-> <<>>,
     recommendations |-> <<>>, optimized_caption |-> "", keyword_gaps |-> <<>>,
     performance_score |-> 0, ad_recommendation |-> "No disponible."]

\* ---- POST /api/seo/audit ----
\* VisibleSEO() and HiddenSEO(notes=...): the models' defaults
VisibleSEO0 ==
    [title |-> None, h1 |-> None, other_headings |-> <<>>, content_focus |-> "",
     readability |-> "", keyword_usage |-> ""]

HiddenSEO0(notes) ==
    [meta_title_ok |-> FALSE, meta_description_ok |-> FALSE, meta_robots |-> None,
     canonical_present |-> FALSE, schema_org_present |-> FALSE,
     open_graph_present |-> FALSE, hreflang_present |-> FALSE, notes |-> notes]

\* `if not (request.text or request.html)`
seo_no_content(rq) == OrEmpty(rq.text) = "" /\ OrEmpty(rq.html) = ""

seo_audit_no_content(rq) ==
    Val([url |-> rq.url,
         summary |-> "No se pudo realizar la auditoría SEO porque no se envió contenido ('text' o 'html').",
         visible_seo |-> VisibleSEO0, hidden_seo |-> HiddenSEO0("Sin contenido para analizar."),
         priority_fixes |-> <<"Vuelve a llamar el endpoint enviando al menos el HTML o texto plano de la página.">>,
         quick_wins |-> <<>>, recommended_keywords |-> <<>>, checklist_90_days |-> <<>>])

seo_audit_degraded(rq) ==
    Val([url |-> rq.url,
         summary |-> "AI.D está en modo básico (sin clave de OpenAI configurada). Se requiere OPENAI_API_KEY para activar la auditoría SEO avanzada.",
         visible_seo |-> VisibleSEO0,
         hidden_seo |-> HiddenSEO0("Sin análisis técnico por falta de modelo."),
         priority_fixes |-> <<"Configurar la variable de entorno OPENAI_API_KEY en el servidor.",
                              "Reintentar la auditoría SEO una vez activado el modelo.">>,
         quick_wins |-> <<>>, recommended_keywords |-> <<>>, checklist_90_days |-> <<>>])

seo_audit_carrier(rq, raw) ==
    Val([url |-> rq.url, summary |-> "No se pudo parsear la respuesta del modelo como JSON.",
         visible_seo |-> VisibleSEO0,
         hidden_seo |-> HiddenSEO0("Revisa la respuesta cruda del modelo y ajusta el prompt si es necesario."),
         priority_fixes |-> <<>>, quick_wins |-> <<>>, recommended_keywords |-> <<>>,
         checklist_90_days |-> <<>>])

\* pydantic's validation for Optional[str] and List[str]
SomeVal(x) == Val(Some(x))

OptStrField(v) == IF v.t = "null" THEN Val(None) ELSE Then(StrField(v), SomeVal)

RECURSIVE StrFields(_, _)
Cons(f, rest) == IF ~f.ok THEN f ELSE IF ~rest.ok THEN rest ELSE Val(<<f.v>> \o rest.v)

StrFields(xs, i) ==
    IF i > Len(xs) THEN Val(<<>>) ELSE Cons(StrField(xs[i]), StrFields(xs, i + 1))

ListStrField(v) == IF v.t = "list" THEN StrFields(v.xs, 1) ELSE Raised("ValidationError")

\* x.get(k, dflt) or dflt
OrDefault(g, dflt) == IF ~g.ok THEN g ELSE Val(IF Truthy(g.v) THEN g.v ELSE dflt)

GetOr(x, k, dflt) == OrDefault(DictGet(x, k, dflt), dflt)

\* bool(x.get(k, False))
BoolVal(x) == Val(Truthy(x))

BoolOf(x, k) == Then(DictGet(x, k, JBool(FALSE)), BoolVal)

VisibleSEO(d) ==
    LET title == Then(DictGet(d, "title", JNull), OptStrField)
        h1 == Then(DictGet(d, "h1", JNull), OptStrField)
        other == Then(GetOr(d, "other_headings", JList(<<>>)), ListStrField)
        focus == Then(GetOr(d, "content_focus", JStr("")), StrField)
        readability == Then(GetOr(d, "readability", JStr("")), StrField)
        usage == Then(GetOr(d, "keyword_usage", JStr("")), StrField)
    IN  Unless(FirstRaised(<<title, h1, other, focus, readability, usage>>, 1),
        Val([title |-> title.v, h1 |-> h1.v, other_headings |-> other.v,
                  content_focus |-> focus.v, readability |-> readability.v,
                  keyword_usage |-> usage.v]))

HiddenSEO(d) ==
    LET title_ok == BoolOf(d, "meta_title_ok")
        desc_ok == BoolOf(d, "meta_description_ok")
        robots == Then(DictGet(d, "meta_robots", JNull), OptStrField)
        canonical == BoolOf(d, "canonical_present")
        schema == BoolOf(d, "schema_org_present")
        og == BoolOf(d, "open_graph_present")
        hreflang == BoolOf(d, "hreflang_present")
        notes == Then(GetOr(d, "notes", JStr("")), StrField)
    IN  Unless(FirstRaised(<<title_ok, desc_ok, robots, canonical, schema, og, hreflang, notes>>, 1),
        Val([meta_title_ok |-> title_ok.v, meta_description_ok |-> desc_ok.v,
                  meta_robots |-> robots.v, canonical_present |-> canonical.v,
                  schema_org_present |-> schema.v, open_graph_present |-> og.v,
                  hreflang_present |-> hreflang.v, notes |-> notes.v]))

seo_audit_typed(rq, parsed) ==
    LET visible_data == GetOr(parsed, "visible_seo", JObj(EmptyDict))
        hidden_data == GetOr(parsed, "hidden_seo", JObj(EmptyDict))
        visible == Then(visible_data, VisibleSEO)
        hidden == Then(hidden_data, HiddenSEO)
        summary == StrOf(parsed, "summary", "")
        fixes == StrListOf(parsed, "priority_fixes")
        wins == StrListOf(parsed, "quick_wins")
        keywords == StrListOf(parsed, "recommended_keywords")
        checklist == StrListOf(parsed, "checklist_90_days")
    IN  Unless(FirstRaised(<<visible_data, hidden_data, visible, hidden, summary, fixes, wins, keywords, checklist>>, 1),
        Val([url |-> rq.url, summary |-> summary.v, visible_seo |-> visible.v,
                  hidden_seo |-> hidden.v, priority_fixes |-> fixes.v, quick_wins |-> wins.v,
                  recommended_keywords |-> keywords.v, checklist_90_days |-> checklist.v]))

seo_audit_fallback(rq, e) ==
    [url |-> rq.url,
     summary |-> "Hubo un error al conectar con el modelo de IA para la auditoría SEO.",
     visible_seo |-> VisibleSEO0,
     hidden_seo |-> HiddenSEO0("Detalle técnico: " \o ExcText(e)),
     priority_fixes |-> <<"Reintentar la auditoría en unos minutos.",
                          "Verificar la conectividad del servidor con el modelo configurado.">>,
     quick_wins |-> <<>>, recommended_keywords |-> <<>>, checklist_90_days |-> <<>>]

\* ---- POST /api/content/generator ----
content_generator_degraded(rq) ==
    Val([idea |-> "AI.D no tiene clave configurada.", hooks |-> <<>>, script |-> "",
         variants |-> <<>>, recommended_format |-> "", difficulty |-> "", ctas |-> <<>>,
         scroll_stopper_score |-> 0, virality_probability |-> "Desconocida",
         differentiation_level |-> "Desconocido"])

content_generator_carrier(rq, raw) ==
    Then(StrField(raw), LAMBDA text :
        Val([idea |-> "No se pudo procesar el JSON.", hooks |-> <<>>,
                  script |-> text, variants |-> <<>>, recommended_format |-> "",
                  difficulty |-> "", ctas |-> <<>>, scroll_stopper_score |-> 0,
                  virality_probability |-> "desconocida",
                  differentiation_level |-> "desconocido"]))

content_generator_typed(rq, parsed) ==
    LET idea == StrOf(parsed, "idea", "")
        hooks == StrListOf(parsed, "hooks")
        script == StrOf(parsed, "script", "")
        variants == StrListOf(parsed, "variants")
        format == StrOf(parsed, "recommended_format", "")
        difficulty == StrOf(parsed, "difficulty", "")
        ctas == StrListOf(parsed, "ctas")
        stopper == IntOf(parsed, "scroll_stopper_score")
        virality == StrOf(parsed, "virality_probability", "")
        differentiation == StrOf(parsed, "differentiation_level", "")
    IN  Unless(FirstRaised(<<idea, hooks, script, variants, format, difficulty, ctas, stopper, virality, differentiation>>, 1),
        Val([idea |-> idea.v, hooks |-> hooks.v, script |-> script.v,
                  variants |-> variants.v, recommended_format |-> format.v,
                  difficulty |-> difficulty.v, ctas |-> ctas.v,
                  scroll_stopper_score |-> stopper.v, virality_probability |-> virality.v,
                  differentiation_level |-> differentiation.v]))

content_generator_fallback(rq, e) ==
    [idea |-> "Error en servidor o conexión con el modelo.", hooks |-> <<>>,
     script |-> ExcText(e), variants |-> <<>>, recommended_format |-> "", difficulty |-> "",
     ctas |-> <<>>, scroll_stopper_score |-> 0, virality_probability |-> "Desconocida",
     differentiation_level |-> "Desconocido"]

\* ---- POST /api/content/hook-optimizer ----
\* before the configuration check: the hook stripped and scored
original_hook(rq) == Strip(rq.hook)

ScoreOf(text, platform_) == evaluate_scroll_stop(Some(text), platform_).score

orig_score(rq) == ScoreOf(original_hook(rq), rq.platform)

HookResponse(hook, sc, improved_hook, imp_score, variants, explanation, format, keyword) ==
    [original_hook |-> hook, original_score |-> sc, original_level |-> scroll_level(sc),
     improved_hook |-> improved_hook, improved_score |-> imp_score,
     improved_level |-> scroll_level(imp_score), variants |-> variants,
     explanation |-> explanation, recommended_format |-> format, suggested_keyword |-> keyword]

\* improved_hook=original_hook, improved_score=orig_score, improved_level=orig_level
Unimproved(hook, sc, explanation) ==
    HookResponse(hook, sc, hook, sc, <<>>, explanation, "Post estático", "SYSTEM")

\* the response every path but the typed one returns, up to its explanation
hook_optimizer_basic(rq, explanation) ==
    Unimproved(original_hook(rq), orig_score(rq), explanation)

hook_optimizer_degraded(rq) ==
    Val(hook_optimizer_basic(rq, "AI.D está en modo sin modelo avanzado. Usa la heurística básica de stop scroll."))

hook_optimizer_carrier(rq, raw) ==
    Val(hook_optimizer_basic(rq, "No se pudo parsear el JSON. Respuesta cruda del modelo: " \o PyStr(raw)))

\* a faulty variant of Improved: the improved hook is not scored, it keeps the
\* score of the original hook
ImprovedUnscored(hook, sc, improved_hook, platform_, variants, explanation, format, keyword) ==
    HookResponse(hook, sc, improved_hook, sc, variants, explanation, format, keyword)

\* improved_hook = str(...).strip(); imp_score, _ = _evaluate_scroll_stop(improved_hook, platform)
Improved(hook, sc, improved_hook, platform_, variants, explanation, format, keyword) ==
    HookResponse(hook, sc, improved_hook, ScoreOf(improved_hook, platform_), variants,
                 explanation, format, keyword)

hook_optimizer_typed(rq, parsed) ==
    LET improved == StrOf(parsed, "improved_hook", original_hook(rq))
        variants == StrListOf(parsed, "variants")
        explanation == StrOf(parsed, "explanation", "")
        format == StrOf(parsed, "recommended_format", "")
        keyword == StrOf(parsed, "suggested_keyword", "")
    IN  Unless(FirstRaised(<<improved, variants, explanation, format, keyword>>, 1),
               Val(Improved(original_hook(rq), orig_score(rq), Strip(improved.v), rq.platform,
                            variants.v, explanation.v, format.v, keyword.v)))

hook_optimizer_fallback(rq, e) ==
    hook_optimizer_basic(rq, "Error al conectar con el modelo de IA: " \o ExcText(e))

\* ---- POST /api/content/slide-generator ----
SlideBlock(index, title, body, cta) ==
    [index |-> index, title |-> title, body |-> body, cta |-> cta]

SlideResponse(rq, slides, caption, keyword, stage) ==
    [topic |-> rq.topic, phase |-> rq.phase, slides |-> slides, global_caption |-> caption,
     keyword |-> keyword, funnel_stage |-> stage]

slide_generator_degraded(rq) ==
    Val(SlideResponse(rq,
            <<SlideBlock(1, "AI.D sin modelo configurado",
                         "Configura la variable OPENAI_API_KEY o un modelo local para activar el generador de slides.",
                         "Escribe SYSTEM para activar tu funnel.")>>,
            "AI.D aún no tiene modelo avanzado configurado.", "SYSTEM", rq.phase))

slide_generator_carrier(rq, raw) ==
    Then(StrField(raw), LAMBDA text :
        Val(SlideResponse(rq,
                     <<SlideBlock(1, "Error al procesar JSON", text, "Reintenta la petición.")>>,
                     "No se pudo parsear la respuesta del modelo.", "SYSTEM", rq.phase)))

\* SlideBlock(index=int(s.get("index", len(slides_list) + 1)), title=str(...), ...)
SlideOf(item, n) ==
    LET index == Then(DictGet(item, "index", JNum(n + 1)), PyInt)
        title == StrOf(item, "title", "")
        body == StrOf(item, "body", "")
        cta == StrOf(item, "cta", "")
    IN  Unless(FirstRaised(<<index, title, body, cta>>, 1),
        Val(SlideBlock(index.v, title.v, body.v, cta.v)))

slide_generator_typed(rq, parsed) ==
    LET items == ItemsOf(parsed, "slides")
        caption == StrOf(parsed, "global_caption", "")
        keyword == StrOf(parsed, "keyword", "")
        stage == StrOf(parsed, "funnel_stage", rq.phase)
    IN  Unless(FirstRaised(<<items, caption, keyword, stage>>, 1),
        Val(SlideResponse(rq,
                IfEmpty(Collect(SlideOf, items.v, 1, <<>>),
                        <<SlideBlock(1, "Sin slides generadas",
                                     "No fue posible generar slides a partir de la respuesta del modelo.",
                                     "Reintenta la petición.")>>),
                caption.v, keyword.v, stage.v)))

slide_generator_fallback(rq, e) ==
    SlideResponse(rq,
        <<SlideBlock(1, "Error de conexión con IA", ExcText(e), "Reintenta la petición.")>>,
        "Hubo un error al conectar con el modelo de IA.", "SYSTEM", rq.phase)

\* ---- POST /api/content/funnel-map ----
FunnelStage(name, goal, role, example) ==
    [name |-> name, goal |-> goal, content_role |-> role, message_example |-> example]

FunnelResponse(rq, keyword, stages, messages, sequence, metrics) ==
    [topic |-> rq.topic, platform |-> rq.platform, objective |-> rq.objective,
     keyword |-> keyword, stages |-> stages, auto_messages |-> messages,
     sequence_24h |-> sequence, metrics_focus |-> metrics]

funnel_map_degraded(rq) ==
    Val(FunnelResponse(rq, "SYSTEM",
            <<FunnelStage("Awareness", "Llamar la atención sobre el problema principal.",
                          "Educar rápido y mostrar el error clave.",
                          "¿Quieres dejar de publicar sin ver resultados reales?")>>,
            <<"Gracias por escribir SYSTEM. Cuéntame en una frase qué vendes y en qué país estás.">>,
            <<"T0h: Respuesta automática con preguntas clave.",
              "T4h: Enviar recordatorio suave si no responde.",
              "T24h: Cerrar con propuesta de diagnóstico express.">>,
            <<"Comentarios con palabra clave", "Respuestas al mensaje automático",
              "Diagnósticos completados">>))

funnel_map_carrier(rq, raw) ==
    Then(StrField(raw), LAMBDA text :
        Val(FunnelResponse(rq, "SYSTEM",
                     <<FunnelStage("Error", "No se pudo parsear el JSON.",
                                   "Revisa la respuesta cruda del modelo.", text)>>,
                     <<>>, <<>>, <<>>)))

StageOf(item, n) ==
    LET name == StrOf(item, "name", "")
        goal == StrOf(item, "goal", "")
        role == StrOf(item, "content_role", "")
        example == StrOf(item, "message_example", "")
    IN  Unless(FirstRaised(<<name, goal, role, example>>, 1),
        Val(FunnelStage(name.v, goal.v, role.v, example.v)))

funnel_map_typed(rq, parsed) ==
    LET items == ItemsOf(parsed, "stages")
        keyword == StrOf(parsed, "keyword", "")
        messages == StrListOf(parsed, "auto_messages")
        sequence == StrListOf(parsed, "sequence_24h")
        metrics == StrListOf(parsed, "metrics_focus")
    IN  Unless(FirstRaised(<<items, keyword, messages, sequence, metrics>>, 1),
        Val(FunnelResponse(rq, keyword.v,
                IfEmpty(Collect(StageOf, items.v, 1, <<>>),
                        <<FunnelStage("Awareness", "Iniciar el interés.", "Educar rápido.",
                                      "Descubre por qué tu contenido no convierte.")>>),
                messages.v, sequence.v, metrics.v)))

funnel_map_fallback(rq, e) ==
    FunnelResponse(rq, "SYSTEM",
        <<FunnelStage("Error", "Fallo de conexión con IA.", "Mostrar detalle técnico.",
                      ExcText(e))>>,
        <<>>, <<>>, <<>>)

\* ---- POST /api/ads/predictor ----
\* the three estimates are floats: the model keeps them in tenths
Tenths(n) == 10 * n

PredictorResponse(rq, ctr, cpc, cpm, summary, risk, recommendations) ==
    [platform |-> rq.platform, objective |-> rq.objective, estimated_ctr |-> ctr,
     estimated_cpc |-> cpc, estimated_cpm |-> cpm, expected_result_summary |-> summary,
     risk_level |-> risk, recommendations |-> recommendations]

ads_predictor_degraded(rq) ==
    Val(PredictorResponse(rq, 10, 15, 80,
            "AI.D está en modo sin modelo avanzado. Usa estos números solo como referencia.",
            "medio",
            <<"Configura OPENAI_API_KEY o un modelo local para activar la predicción avanzada.",
              "Prueba distintas creatividades y audiencias para reducir el riesgo.">>))

ads_predictor_carrier(rq, raw) ==
    Val(PredictorResponse(rq, 8, 12, 70,
            "No se pudo parsear el JSON. Respuesta cruda: " \o PyStr(raw), "medio",
            <<"Revisa manualmente la respuesta cruda del modelo.",
              "Ajusta el anuncio y haz un test A/B con bajo presupuesto.">>))

ads_predictor_typed(rq, parsed) ==
    LET ctr == FloatOf(parsed, "estimated_ctr")
        cpc == FloatOf(parsed, "estimated_cpc")
        cpm == FloatOf(parsed, "estimated_cpm")
        summary == StrOf(parsed, "expected_result_summary", "")
        risk == StrOf(parsed, "risk_level", "")
        recommendations == StrListOf(parsed, "recommendations")
    IN  Unless(FirstRaised(<<ctr, cpc, cpm, summary, risk, recommendations>>, 1),
        Val(PredictorResponse(rq, Tenths(ctr.v), Tenths(cpc.v), Tenths(cpm.v),
                                   summary.v, risk.v, recommendations.v)))

ads_predictor_fallback(rq, e) ==
    PredictorResponse(rq, 0, 0, 0, "Error al conectar con el modelo de IA: " \o ExcText(e),
        "alto",
        <<"Lanza el anuncio con presupuesto mínimo y monitorea datos reales.",
          "Revisa segmentación, creatividad y oferta antes de escalar.">>)

\* ---- POST /api/content/video-script ----
VideoResponse(rq, hook, script, beats, cta, broll) ==
    [topic |-> rq.topic, duration_seconds |-> rq.duration_seconds, hook |-> hook,
     script |-> script, beats |-> beats, closing_cta |-> cta, broll_ideas |-> broll]

video_script_degraded(rq) ==
    Val(VideoResponse(rq,
            "Configura OPENAI_API_KEY o un modelo local para activar el generador de guiones.",
            "", <<>>, "Escribe SYSTEM para recibir tu diagnóstico cuando AI.D esté activo.",
            <<"Capturas de pantalla de métricas.", "Texto grande en pantalla con tu hook.">>))

video_script_carrier(rq, raw) ==
    Then(StrField(raw), LAMBDA text :
        Val(VideoResponse(rq, "Error al procesar JSON del modelo.", text, <<>>,
                               "Revisa el contenido crudo y ajusta manualmente.", <<>>)))

BeatOf(item, n) ==
    LET from == IntOf(item, "second_from")
        to == IntOf(item, "second_to")
        action == StrOf(item, "action", "")
        text == StrOf(item, "on_screen_text", "")
    IN  Unless(FirstRaised(<<from, to, action, text>>, 1),
        Val([second_from |-> from.v, second_to |-> to.v, action |-> action.v,
                  on_screen_text |-> text.v]))

video_script_typed(rq, parsed) ==
    LET items == ItemsOf(parsed, "beats")
        hook == StrOf(parsed, "hook", "")
        script == StrOf(parsed, "script", "")
        cta == StrOf(parsed, "closing_cta", "")
        broll == StrListOf(parsed, "broll_ideas")
    IN  Unless(FirstRaised(<<items, hook, script, cta, broll>>, 1),
        Val(VideoResponse(rq, hook.v, script.v, Collect(BeatOf, items.v, 1, <<>>),
                               cta.v, broll.v)))

video_script_fallback(rq, e) ==
    VideoResponse(rq, "Error de conexión con IA.", ExcText(e), <<>>,
                  "Intenta generar de nuevo el guion.", <<>>)

\* ---- POST /api/chat/aid ----
CoreChatResponse(rq, reply, suggestions, next_actions, fallback) ==
    [reply |-> reply, mode |-> rq.mode, used_language |-> Lang(rq),
     suggestions |-> suggestions, next_actions |-> next_actions, fallback |-> fallback]

aid_core_chat_degraded(rq) ==
    Val(CoreChatResponse(rq,
            "Ahora mismo AI.D está en modo básico (sin conexión al modelo avanzado). Igual puedo ayudarte a ordenar tus ideas. Escríbeme 1) tu contexto, 2) qué quieres lograr en los próximos 30 días y 3) qué tienes disponible hoy.",
            <<"Describe brevemente tu negocio o proyecto.",
              "Cuenta qué estás haciendo hoy en marketing o contenido.",
              "Di qué resultado te gustaría ver en 30 días.">>,
            <<"Escribe esos tres puntos y vuelve a enviarlos a AI.D.",
              "Prioriza un solo objetivo principal para empezar.">>,
            TRUE))

\* a faulty variant of aid_core_chat_carrier: the raw text goes out with
\* fallback=False, as if it were the parsed reply
aid_core_chat_carrier_unflagged(rq, raw) ==
    Then(StrField(raw), LAMBDA text :
        Val(CoreChatResponse(rq, text, <<>>, <<>>, FALSE)))

aid_core_chat_carrier(rq, raw) ==
    Then(StrField(raw), LAMBDA text :
        Val(CoreChatResponse(rq, text, <<>>, <<>>, TRUE)))

aid_core_chat_typed(rq, parsed) ==
    LET reply == StrOf(parsed, "reply", "")
        suggestions == StrListOf(parsed, "suggestions")
        next_actions == StrListOf(parsed, "next_actions")
    IN  Unless(FirstRaised(<<reply, suggestions, next_actions>>, 1),
        Val(CoreChatResponse(rq, reply.v, suggestions.v, next_actions.v, FALSE)))

aid_core_chat_fallback(rq, e) ==
    CoreChatResponse(rq,
        "Hubo un error al conectar con el modelo de IA. Puedes intentar de nuevo en unos minutos.",
        <<>>, <<"Detalle técnico (para el equipo): " \o ExcText(e)>>, TRUE)

\* ---- POST /api/content/scroll-stop: the scorer alone, no model call ----
ScrollStopResponse(r, platform_) ==
    [score |-> r.score, level |-> scroll_level(r.score), details |-> r.details,
     advice |-> scroll_advice(r.score, platform_)]

scroll_stop_response(rq) ==
    ScrollStopResponse(evaluate_scroll_stop(Some(rq.topic), rq.platform), rq.platform)

(***************************************************************************)
(* The handlers by name                                                    *)
(***************************************************************************)
ToolHandlers ==
    {"ads_optimizer", "content_analyzer", "seo_audit", "content_generator",
     "hook_optimizer", "slide_generator", "funnel_map", "ads_predictor", "video_script",
     "aid_core_chat"}

Handlers == ToolHandlers \cup {"chat", "aid_chat", "scroll_stop", "root"}

Degraded(h, rq) ==
    CASE h = "ads_optimizer" -> ads_optimizer_degraded(rq)
      [] h = "content_analyzer" -> content_analyzer_degraded(rq)
      [] h = "seo_audit" -> seo_audit_degraded(rq)
      [] h = "content_generator" -> content_generator_degraded(rq)
      [] h = "hook_optimizer" -> hook_optimizer_degraded(rq)
      [] h = "slide_generator" -> slide_generator_degraded(rq)
      [] h = "funnel_map" -> funnel_map_degraded(rq)
      [] h = "ads_predictor" -> ads_predictor_degraded(rq)
      [] h = "video_script" -> video_script_degraded(rq)
      [] h = "aid_core_chat" -> aid_core_chat_degraded(rq)

Carrier(h, rq, raw) ==
    CASE h = "ads_optimizer" -> ads_optimizer_carrier(rq, raw)
      [] h = "content_analyzer" -> content_analyzer_carrier(rq, raw)
      [] h = "seo_audit" -> seo_audit_carrier(rq, raw)
      [] h = "content_generator" -> content_generator_carrier(rq, raw)
      [] h = "hook_optimizer" -> hook_optimizer_carrier(rq, raw)
      [] h = "slide_generator" -> slide_generator_carrier(rq, raw)
      [] h = "funnel_map" -> funnel_map_carrier(rq, raw)
      [] h = "ads_predictor" -> ads_predictor_carrier(rq, raw)
      [] h = "video_script" -> video_script_carrier(rq, raw)
      [] h = "aid_core_chat" -> aid_core_chat_carrier(rq, raw)

Typed(h, rq, parsed) ==
    CASE h = "ads_optimizer" -> ads_optimizer_typed(rq, parsed)
      [] h = "content_analyzer" -> content_analyzer_typed(rq, parsed)
      [] h = "seo_audit" -> seo_audit_typed(rq, parsed)
      [] h = "content_generator" -> content_generator_typed(rq, parsed)
      [] h = "hook_optimizer" -> hook_optimizer_typed(rq, parsed)
      [] h = "slide_generator" -> slide_generator_typed(rq, parsed)
      [] h = "funnel_map" -> funnel_map_typed(rq, parsed)
      [] h = "ads_predictor" -> ads_predictor_typed(rq, parsed)
      [] h = "video_script" -> video_script_typed(rq, parsed)
      [] h = "aid_core_chat" -> aid_core_chat_typed(rq, parsed)

Fallback(h, rq, e) ==
    CASE h = "ads_optimizer" -> ads_optimizer_fallback(rq, e)
      [] h = "content_analyzer" -> content_analyzer_fallback(rq, e)
      [] h = "seo_audit" -> seo_audit_fallback(rq, e)
      [] h = "content_generator" -> content_generator_fallback(rq, e)
      [] h = "hook_optimizer" -> hook_optimizer_fallback(rq, e)
      [] h = "slide_generator" -> slide_generator_fallback(rq, e)
      [] h = "funnel_map" -> funnel_map_fallback(rq, e)
      [] h = "ads_predictor" -> ads_predictor_fallback(rq, e)
      [] h = "video_script" -> video_script_fallback(rq, e)
      [] h = "aid_core_chat" -> aid_core_chat_fallback(rq, e)

\* the response a return statement gives, under the name of its state
Tag(term, c) == IF c.ok THEN Val(Resp(term, c.v)) ELSE c

\* `try: parsed = json.loads(raw)  except Exception: return <carrier>`, then
\* `return <typed>`
AfterLoads(h, rq, raw, parsed) ==
    IF ~parsed.ok THEN Tag("RAW_TEXT_CARRIER", Carrier(h, rq, raw))
    ELSE Tag("TYPED_RESPONSE", Typed(h, rq, parsed.v))

\* the outer try of a tool handler, from the gateway's answer g on: what it
\* returns, or the exception its except clause catches
tool_try(h, rq, g) ==
    IF ~g.ok THEN g
    ELSE IF g.v.t = "null" THEN Raised("RuntimeError")
    ELSE AfterLoads(h, rq, g.v, json_loads(g.v))

\* `except Exception as e: return <fallback>`
Recover(h, rq, tried) ==
    IF tried.ok THEN tried.v ELSE Resp("ERROR_FALLBACK", Fallback(h, rq, tried.exc))

tool_finish(h, rq, g) == Recover(h, rq, tool_try(h, rq, g))

\* a handler from the return of its gateway call on
Finish(rq, g) ==
    CASE rq.handler = "chat" -> chat_finish(rq, g)
      [] rq.handler = "aid_chat" -> aid_chat_finish(rq, g)
      [] OTHER -> tool_finish(rq.handler, rq, g)

(***************************************************************************)
(* Inputs of the scorer                                                    *)
(***************************************************************************)
Lexicon == << "3", "errores", "plan", "¿Quieres", "VENTAS?", "\t" >>

Filler == "y"

Platforms ==
    {"instagram", "linkedin", "tiktok", "threads", "facebook", "youtube", "generic"}

RECURSIVE Join(_)
Join(ws) == IF ws = <<>> THEN ""
            ELSE IF Len(ws) = 1 THEN ws[1] ELSE ws[1] \o " " \o Join(Tail(ws))

Heads == UNION {[1..n -> 1..Len(Lexicon)] : n \in 0..MaxHead}

MakeTopic(head, pad) ==
    Join([i \in 1..(Len(head) + pad) |-> IF i <= Len(head) THEN Lexicon[head[i]] ELSE Filler])

Topics == {None} \cup {Some(MakeTopic(h, p)) : h \in Heads, p \in 0..MaxPad}

\* the scores _scroll_level is called on
Scores == (0 - MaxScore)..MaxScore

\* the arguments of the repeated calls
CallTopics == {None, Some(""), Some("plan"), Some("3 errores que te cuestan clientes")}

CallPlatforms == {"instagram", "linkedin"}

(***************************************************************************)
(* Inputs of the pipeline                                                  *)
(***************************************************************************)
\* texts a model may answer with
RawTexts ==
    { "",
      "not json",
      "  Hola, soy AI.D  ",
      "{\"a\":1}",
      "[1]",
      "null",
      "\"hola\"",
      " {\"summary\": \"Resumen\", \"recommended_strategy\": \"Estrategia\", \"budget_distribution\": [{\"platform\": \"Instagram Ads\", \"percentage\": 50}, {\"platform\": \"Google Ads\", \"percentage\": \"x\"}, 7, {\"percentage\": \"50\"}], \"audiences\": [\"A1\", 2], \"ctas\": [\"Escribe SYSTEM\"], \"reply\": \"Respuesta\", \"suggestions\": [\"s1\"], \"next_actions\": [\"n1\"]}\n",
      "{\"summary\":\"Resumen\",\"strengths\":[\"claro\"],\"weaknesses\":[],\"optimized_caption\":\"Caption\",\"performance_score\":\"80\",\"ad_recommendation\":\"Sirve\",\"estimated_ctr\":2,\"estimated_cpc\":\"1\",\"expected_result_summary\":\"ok\",\"risk_level\":\"bajo\"}",
      "{\"summary\":\"Resumen\",\"visible_seo\":{\"title\":\"Titulo\",\"other_headings\":[\"h2\"],\"content_focus\":null},\"hidden_seo\":{\"meta_title_ok\":true,\"canonical_present\":1,\"notes\":\"ok\"},\"priority_fixes\":[\"fix\"],\"improved_hook\":\" 3 errores de ventas \",\"variants\":[\"v1\",\"v2\"],\"explanation\":\"Mejor\"}",
      "{\"idea\":\"Idea\",\"hooks\":[\"h\"],\"script\":\"Guion\",\"scroll_stopper_score\":70,\"slides\":[{\"title\":\"T1\",\"body\":\"B1\",\"cta\":\"C1\"},{\"index\":\"x\"},{\"index\":\"7\",\"title\":3}],\"global_caption\":\"Cap\",\"keyword\":\"AUDIT\"}",
      "{\"stages\":[{\"name\":\"Awareness\",\"goal\":\"G\"},\"x\"],\"auto_messages\":[\"m\"],\"metrics_focus\":[\"ctr\"],\"hook\":\"Hook\",\"script\":\"Guion\",\"beats\":[{\"second_from\":0,\"second_to\":\"3\",\"action\":\"a\"},{\"second_from\":\"x\"}],\"closing_cta\":\"CTA\"}",
      "{\"summary\":{\"a\":1},\"audiences\":null,\"strengths\":\"ab\",\"performance_score\":\"alto\",\"visible_seo\":\"texto\",\"hooks\":{\"k\":\"v\"},\"improved_hook\":null,\"slides\":\"ab\",\"stages\":null}",
      "{\"summary\":null,\"budget_distribution\":null,\"recommendations\":7,\"scroll_stopper_score\":null,\"variants\":null,\"visible_seo\":{\"title\":5,\"other_headings\":\"h2\"},\"hidden_seo\":[],\"estimated_ctr\":\"alto\",\"beats\":5,\"reply\":[\"a\",1],\"suggestions\":null}" }

\* what a backend may put where the generated text belongs
Contents ==
    {JStr(t) : t \in RawTexts}
    \cup {JNull, JNum(123), JList(<<JStr("hola")>>), JObj(<< <<"text", JStr("hola")>> >>)}

\* the three body shapes that carry a content
ChatCompletionsBody(c) ==
    JObj(<< <<"id", JStr("cmpl-1")>>,
            <<"choices", JList(<<JObj(<< <<"index", JNum(0)>>,
                                         <<"message", JObj(<< <<"role", JStr("assistant")>>,
                                                              <<"content", c>> >>)>> >>)>>)>> >>)

MessageBody(c) ==
    JObj(<< <<"model", JStr("phi-2")>>,
            <<"message", JObj(<< <<"role", JStr("assistant")>>, <<"content", c>> >>)>> >>)

ContentBody(c) == JObj(<< <<"content", c>> >>)

\* bodies of other shapes
OtherBodies ==
    { JObj(<< <<"choices", JList(<<>>)>> >>),
      JObj(<< <<"choices", JList(<<JObj(<< <<"text", JStr("hola")>> >>)>>)>> >>),
      JObj(<< <<"message", JStr("hola")>>, <<"content", JStr("not json")>> >>),
      JObj(<< <<"choices", JList(<<>>)>>, <<"content", JStr("hola")>> >>),
      JObj(<< <<"message", JObj(<< <<"role", JStr("assistant")>> >>)>> >>),
      JObj(<< <<"response", JStr("hola")>> >>),
      JObj(<< <<"error", JObj(<< <<"message", JStr("invalid api key")>> >>)>> >>),
      JList(<<JStr("hola")>>),
      JStr("hola") }

Bodies ==
    {ChatCompletionsBody(c) : c \in Contents} \cup {MessageBody(c) : c \in Contents}
    \cup {ContentBody(c) : c \in Contents} \cup OtherBodies

NetOutcomes ==
    {NetError}
    \cup {NetResponse(200, Val(b)) : b \in Bodies}
    \cup {NetResponse(200, Raised("JSONDecodeError")),
          NetResponse(500, Val(JObj(<< <<"error", JStr("server error")>> >>))),
          NetResponse(401, Val(ChatCompletionsBody(JStr("not json"))))}

\* a request body; the fields a handler does not read keep a fixed value
Request(h, language, mode, text, html, hook, topic_, platform_) ==
    [handler |-> h, language |-> language, mode |-> mode, text |-> text, html |-> html,
     url |-> Some("https://mkt360.cl"), topic |-> topic_, hook |-> hook,
     platform |-> platform_, phase |-> "awareness", objective |-> "leads",
     duration_seconds |-> 30]

BaseRequest(h) ==
    Request(h, None, "generic", None, None, "", "3 errores que te cuestan clientes", "instagram")

\* the request bodies of a handler
RequestsOf(h) ==
    CASE h = "chat" ->
           {Request(h, l, m, None, None, "", "", "instagram") :
                m \in {"adai", "external"}, l \in {None, Some("en")}}
      [] h = "seo_audit" ->
           {Request(h, None, "generic", t, x, "", "", "instagram") :
                t \in {None, Some(""), Some("Auditoria SEO")}, x \in {None, Some("<h1>SEO</h1>")}}
      [] h = "hook_optimizer" ->
           {Request(h, None, "generic", None, None, k, "", pl) :
                k \in {" ¿Quieres ventas? ", "plan"}, pl \in {"instagram", "linkedin"}}
      [] h = "scroll_stop" ->
           {Request(h, None, "generic", None, None, "", t, pl) :
                t \in {"3 errores que te cuestan clientes", "", "plan"},
                pl \in {"instagram", "linkedin", "generic"}}
      [] OTHER -> {BaseRequest(h)}

\* the request bodies of all the handlers
AllBodies == UNION {RequestsOf(h) : h \in Handlers}

\* the requests in flight: one, where a request is followed on its own
Requests == {1}

\* the requests in flight where requests run concurrently
InFlight == 1..MaxInFlight

\* the bodies and the exchanges of the concurrent requests
ConcurrentBodies ==
    { BaseRequest("ads_optimizer"),
      Request("hook_optimizer", None, "generic", None, None, "plan", "", "linkedin"),
      Request("seo_audit", None, "generic", None, None, "", "", "instagram"),
      Request("chat", None, "adai", None, None, "", "", "instagram"),
      Request("scroll_stop", None, "generic", None, None, "", "plan", "instagram") }

ConcurrentOutcomes ==
    { NetError,
      NetResponse(200, Val(ChatCompletionsBody(JStr("{\"a\":1}")))),
      NetResponse(200, Val(MessageBody(JStr("not json")))) }

OPENAI_URL == "https://api.openai.com/v1/chat/completions"

\* the model every handler names in its call
ModelHint == "gpt-4.1-mini"

(***************************************************************************)
(* The scorer on its own                                                   *)
(***************************************************************************)
ConfigInit ==
    /\ OPENAI_API_KEY \in {None, Some(""), Some("sk-test")}
    /\ DEFAULT_LANG = "es"
    /\ LLM_PROVIDER \in {"openai", "local", "azure"}
    /\ LOCAL_LLM_URL = "http://localhost:11434/api/chat"
    /\ LOCAL_LLM_MODEL = "phi-2"
    /\ pydantic_v2 \in BOOLEAN
    /\ model = Some(ModelHint)

\* no request of rs has arrived yet
NoneOf(rs) ==
    /\ pc = [r \in rs |-> "idle"]
    /\ req = [r \in rs |-> BaseRequest("none")]
    /\ post = [r \in rs |-> None]
    /\ outcome = [r \in rs |-> None]
    /\ got = [r \in rs |-> Pending]
    /\ resp = [r \in rs |-> NoResp]
    /\ gateway_calls = [r \in rs |-> 0]
    /\ net_calls = [r \in rs |-> 0]

NoRequests == NoneOf(Requests)

\* the configuration plays no part in the scorer
ScorerAlone ==
    /\ details = <<>>
    /\ level = ""
    /\ advice = ""
    /\ log = <<>>
    /\ OPENAI_API_KEY = None
    /\ DEFAULT_LANG = "es"
    /\ LLM_PROVIDER = "openai"
    /\ LOCAL_LLM_URL = "http://localhost:11434/api/chat"
    /\ LOCAL_LLM_MODEL = "phi-2"
    /\ pydantic_v2 = TRUE
    /\ model = Some(ModelHint)
    /\ NoRequests

\* either _evaluate_scroll_stop is about to be called on a text, or
\* _scroll_level on a score
ScoreInit ==
    /\ \/ /\ spc = "call"
          /\ topic \in Topics
          /\ platform \in Platforms
          /\ score = 0
       \/ /\ spc = "classify"
          /\ topic = None
          /\ platform \in Platforms
          /\ score \in Scores
    /\ ScorerAlone

\* the caller keeps what the scorer gave and derives level and advice from it
Returns(r) ==
    /\ score' = r.score
    /\ details' = r.details
    /\ level' = scroll_level(r.score)
    /\ advice' = scroll_advice(r.score, platform)

\* score, details = _evaluate_scroll_stop(topic, platform); level; advice
Evaluate ==
    /\ spc = "call"
    /\ Returns(evaluate_scroll_stop(topic, platform))
    /\ log' = Append(log, [topic |-> topic, platform |-> platform, score |-> score',
                           details |-> details', advice |-> advice'])
    /\ spc' = "done"
    /\ UNCHANGED <<topic, platform, cvars, rvars>>

\* level = _scroll_level(score); advice = _scroll_advice(score, platform)
Classify ==
    /\ spc = "classify"
    /\ level' = scroll_level(score)
    /\ advice' = scroll_advice(score, platform)
    /\ spc' = "classified"
    /\ UNCHANGED <<topic, platform, score, details, log, cvars, rvars>>

ScoreNext == Evaluate \/ Classify

SpecScore == ScoreInit /\ [][ScoreNext]_vars

\* the scorer called again and again by one process
CallsInit ==
    /\ spc = "idle"
    /\ topic = None
    /\ platform = "generic"
    /\ score = 0
    /\ ScorerAlone

\* the next call of the scorer is made
Call ==
    /\ spc \in {"idle", "done"}
    /\ Len(log) < MaxCalls
    /\ \E t \in CallTopics, p \in CallPlatforms : topic' = t /\ platform' = p
    /\ spc' = "call"
    /\ UNCHANGED <<score, details, level, advice, log, cvars, rvars>>

CallsNext == Call \/ Evaluate

SpecCalls == CallsInit /\ [][CallsNext]_vars

(***************************************************************************)
(* The request pipeline                                                    *)
(***************************************************************************)
Init ==
    /\ topic = None
    /\ platform = "generic"
    /\ score = 0
    /\ details = <<>>
    /\ level = ""
    /\ advice = ""
    /\ log = <<>>
    /\ spc = "off"
    /\ ConfigInit
    /\ NoRequests

Done(r, response) ==
    /\ resp' = [resp EXCEPT ![r] = response]
    /\ pc' = [pc EXCEPT ![r] = "done"]

\* a request with one of the bodies rqs arrives; FastAPI has validated it
Arrive(r, rqs) ==
    /\ pc[r] = "idle"
    /\ \E rq \in rqs : req' = [req EXCEPT ![r] = rq]
    /\ pc' = [pc EXCEPT ![r] = "start"]
    /\ UNCHANGED <<svars, cvars, post, outcome, got, resp, gateway_calls, net_calls>>

Receive(r) == Arrive(r, AllBodies)

\* root: the health report, read from the configuration
Health(r) ==
    /\ pc[r] = "start"
    /\ req[r].handler = "root"
    /\ Done(r, Resp("HEALTH", root))
    /\ UNCHANGED <<svars, cvars, req, post, outcome, got, gateway_calls, net_calls>>

\* scroll_stop: the heuristic alone
ScrollStop(r) ==
    /\ pc[r] = "start"
    /\ req[r].handler = "scroll_stop"
    /\ Done(r, Resp("HEURISTIC", scroll_stop_response(req[r])))
    /\ UNCHANGED <<svars, cvars, req, post, outcome, got, gateway_calls, net_calls>>

\* a faulty variant of seo_stops_at_content: the check of the content placed
\* behind the check of the configuration
seo_stops_after_config(rq) ==
    rq.handler = "seo_audit" /\ seo_no_content(rq) /\ ~Unconfigured

\* seo_audit returns at its first check, that of the content, which stands
\* before the check of the configuration
seo_stops_at_content(rq) ==
    rq.handler = "seo_audit" /\ seo_no_content(rq)

\* seo_audit: neither text nor html
NoContent(r) ==
    /\ pc[r] = "start"
    /\ seo_stops_at_content(req[r])
    /\ Done(r, Resp("NO_CONTENT", seo_audit_no_content(req[r]).v))
    /\ UNCHANGED <<svars, cvars, req, post, outcome, got, gateway_calls, net_calls>>

\* the handlers that check the configuration themselves
ChecksConfig(rq) == rq.handler \in ToolHandlers \cup {"aid_chat"}

\* the handler passes its checks and goes on to call the gateway
ReachesGateway(rq) ==
    /\ rq.handler \in ToolHandlers \cup {"chat", "aid_chat"}
    /\ ~seo_stops_at_content(rq)
    /\ ~(ChecksConfig(rq) /\ Unconfigured)

\* `if LLM_PROVIDER == "openai" and not OPENAI_API_KEY: return <degraded>`
Degrade(r) ==
    /\ pc[r] = "start"
    /\ ChecksConfig(req[r])
    /\ ~seo_stops_at_content(req[r])
    /\ Unconfigured
    /\ Done(r, IF req[r].handler = "aid_chat" THEN aid_chat_degraded(req[r])
               ELSE Resp("DEGRADED_RESPONSE", Degraded(req[r].handler, req[r]).v))
    /\ UNCHANGED <<svars, cvars, req, post, outcome, got, gateway_calls, net_calls>>

\* a faulty variant of RoutesLocal: every provider but openai goes to the
\* local backend (`!= "openai"` where the source has `== "local"`)
RoutesNotOpenai == LLM_PROVIDER # "openai"

\* call_llm_messages routes to _call_local_chat
RoutesLocal == LLM_PROVIDER = "local"

\* a faulty variant of Returned: the gateway keeps its last result in one
\* place for all the requests (a module-level variable), so a request reads
\* what another request was given
ReturnedShared(r, x) ==
    /\ got' = [q \in DOMAIN got |-> x]
    /\ pc' = [pc EXCEPT ![r] = "returned"]

\* a faulty variant of Returned: the handler calls the gateway again when it
\* was given None
ReturnedOrRetried(r, x) ==
    /\ got' = [got EXCEPT ![r] = x]
    /\ pc' = [pc EXCEPT ![r] = IF x = Val(JNull) THEN "start" ELSE "returned"]

\* call_llm_messages has returned x to the handler
Returned(r, x) ==
    /\ got' = [got EXCEPT ![r] = x]
    /\ pc' = [pc EXCEPT ![r] = "returned"]

\* call_llm_messages -> _call_openai_chat -> `if not OPENAI_API_KEY: return None`:
\* the gateway returns None without a request
GatewayNoKey(r) ==
    /\ pc[r] = "start"
    /\ ReachesGateway(req[r])
    /\ ~RoutesLocal
    /\ OrEmpty(OPENAI_API_KEY) = ""
    /\ gateway_calls' = [gateway_calls EXCEPT ![r] = @ + 1]
    /\ Returned(r, Val(JNull))
    /\ UNCHANGED <<svars, cvars, req, post, outcome, resp, net_calls>>

\* `LOCAL_LLM_MODEL or m`: the configured identifier before the caller's
local_model_configured(m) ==
    IF LOCAL_LLM_MODEL # "" THEN LOCAL_LLM_MODEL ELSE OrEmpty(m)

\* `model or LOCAL_LLM_MODEL`, the "model" of _call_local_chat's payload
local_model(m) ==
    IF OrEmpty(m) # "" THEN m.v ELSE LOCAL_LLM_MODEL

\* call_llm_messages posts to the selected backend and awaits the answer
CallGateway(r) ==
    /\ pc[r] = "start"
    /\ ReachesGateway(req[r])
    /\ RoutesLocal \/ OrEmpty(OPENAI_API_KEY) # ""
    /\ gateway_calls' = [gateway_calls EXCEPT ![r] = @ + 1]
    /\ net_calls' = [net_calls EXCEPT ![r] = @ + 1]
    /\ post' = [post EXCEPT ![r] =
                    IF RoutesLocal
                    THEN Some([url |-> LOCAL_LLM_URL,
                               model |-> local_model(Some(ModelHint)),
                               bearer |-> None])
                    ELSE Some([url |-> OPENAI_URL, model |-> ModelHint,
                               bearer |-> OPENAI_API_KEY])]
    /\ pc' = [pc EXCEPT ![r] = "awaiting"]
    /\ UNCHANGED <<svars, cvars, req, outcome, got, resp>>

\* what call_llm_messages returns once the exchange has ended with net
GatewayReturn(net) == IF RoutesLocal THEN call_local_chat(net) ELSE call_openai_chat(net)

\* the POST ends in one of nets (answer, error or timeout) and the gateway
\* returns
Ends(r, nets) ==
    /\ pc[r] = "awaiting"
    /\ post' = [post EXCEPT ![r] = None]
    /\ \E net \in nets :
           /\ outcome' = [outcome EXCEPT ![r] = Some(net)]
           /\ Returned(r, GatewayReturn(net))
    /\ UNCHANGED <<svars, cvars, req, resp, gateway_calls, net_calls>>

Deliver(r) == Ends(r, NetOutcomes)

\* the handler goes on from the gateway's return to its own
Respond(r) ==
    /\ pc[r] = "returned"
    /\ Done(r, Finish(req[r], got[r]))
    /\ UNCHANGED <<svars, cvars, req, post, outcome, got, gateway_calls, net_calls>>

Next ==
    \E r \in Requests :
        \/ Receive(r)
        \/ Health(r)
        \/ ScrollStop(r)
        \/ NoContent(r)
        \/ Degrade(r)
        \/ GatewayNoKey(r)
        \/ CallGateway(r)
        \/ Deliver(r)
        \/ Respond(r)

Spec == Init /\ [][Next]_vars

(***************************************************************************)
(* Concurrent requests: the event loop runs the handlers of the requests   *)
(* in flight in any order, switching at every await                        *)
(***************************************************************************)
ConcurrentInit ==
    /\ topic = None
    /\ platform = "generic"
    /\ score = 0
    /\ details = <<>>
    /\ level = ""
    /\ advice = ""
    /\ log = <<>>
    /\ spc = "off"
    /\ ConfigInit
    /\ NoneOf(InFlight)

ReceiveOne(r) == Arrive(r, ConcurrentBodies)

DeliverOne(r) == Ends(r, ConcurrentOutcomes)

ConcurrentNext ==
    \E r \in InFlight :
        \/ ReceiveOne(r)
        \/ ScrollStop(r)
        \/ NoContent(r)
        \/ Degrade(r)
        \/ GatewayNoKey(r)
        \/ CallGateway(r)
        \/ DeliverOne(r)
        \/ Respond(r)

SpecConcurrent == ConcurrentInit /\ [][ConcurrentNext]_vars

(***************************************************************************)
(* The local backend called on its own, next to the handlers' requests:    *)
(* _call_local_chat(messages, model) with any model argument               *)
(***************************************************************************)
Hints == {None, Some(""), Some(ModelHint), Some("llama3")}

LocalInit ==
    /\ topic = None
    /\ platform = "generic"
    /\ score = 0
    /\ details = <<>>
    /\ level = ""
    /\ advice = ""
    /\ log = <<>>
    /\ spc = "off"
    /\ OPENAI_API_KEY \in {None, Some("sk-test")}
    /\ DEFAULT_LANG = "es"
    /\ LLM_PROVIDER \in {"openai", "local"}
    /\ LOCAL_LLM_URL = "http://localhost:11434/api/chat"
    /\ LOCAL_LLM_MODEL = "phi-2"
    /\ pydantic_v2 = TRUE
    /\ model \in Hints
    /\ NoRequests

\* _call_local_chat builds its payload and posts it to LOCAL_LLM_URL
CallLocal(r) ==
    /\ pc[r] = "idle"
    /\ net_calls' = [net_calls EXCEPT ![r] = @ + 1]
    /\ post' = [post EXCEPT ![r] =
                    Some([url |-> LOCAL_LLM_URL, model |-> local_model(model),
                          bearer |-> None])]
    /\ pc' = [pc EXCEPT ![r] = "posted"]
    /\ UNCHANGED <<svars, cvars, req, outcome, got, resp, gateway_calls>>

\* the POST ends and _call_local_chat returns the content or None
ReturnLocal(r) ==
    /\ pc[r] = "posted"
    /\ post' = [post EXCEPT ![r] = None]
    /\ \E net \in NetOutcomes :
           /\ outcome' = [outcome EXCEPT ![r] = Some(net)]
           /\ got' = [got EXCEPT ![r] = call_local_chat(net)]
    /\ pc' = [pc EXCEPT ![r] = "given"]
    /\ UNCHANGED <<svars, cvars, req, resp, gateway_calls, net_calls>>

LocalNext ==
    \E r \in Requests :
        \/ CallLocal(r)
        \/ ReturnLocal(r)
        \/ Receive(r)
        \/ Health(r)
        \/ ScrollStop(r)
        \/ NoContent(r)
        \/ Degrade(r)
        \/ GatewayNoKey(r)
        \/ CallGateway(r)
        \/ Deliver(r)
        \/ Respond(r)

SpecLocal == LocalInit /\ [][LocalNext]_vars

(***************************************************************************)
(* Properties.  Those of the scorer are stated of SpecScore and SpecCalls, *)
(* those of the gateway and the pipeline of Spec.                          *)
(***************************************************************************)
\* the handlers that follow the pipeline of the feature handlers
PipelineHandlers == ToolHandlers \cup {"chat", "aid_chat"}

FourTerminals == {"DEGRADED_RESPONSE", "ERROR_FALLBACK", "TYPED_RESPONSE", "RAW_TEXT_CARRIER"}

\* C1: every handler of the pipeline, /chat and /api/aid-chat included,
\* returns a response of its schema (HTTP 200) whatever the gateway gave it:
\* no exception escapes to the HTTP layer.
C1_NoFaultEscapes ==
    \A r \in Requests :
        (pc[r] = "done" /\ req[r].handler \in PipelineHandlers) => resp[r].status = 200

\* C1: the local backend hands over the number 123 as the content and
\* /api/aid-chat ends with AttributeError escaping
C1_AidChatFaults ==
    \E r \in Requests :
        /\ pc[r] = "done"
        /\ req[r].handler = "aid_chat"
        /\ LLM_PROVIDER = "local"
        /\ got[r] = Val(JNum(123))
        /\ resp[r] = Fault("AttributeError")

\* C2: with the remote backend selected and no credential configured, no
\* handler enters the gateway: every request ends in DEGRADED_RESPONSE with
\* no call of call_llm_messages and no network call.
C2_NoGatewayCallUnconfigured ==
    (LLM_PROVIDER = "openai" /\ OrEmpty(OPENAI_API_KEY) = "") =>
        \A r \in Requests :
            /\ gateway_calls[r] = 0
            /\ net_calls[r] = 0
            /\ (pc[r] = "done" /\ req[r].handler \in PipelineHandlers
                    /\ resp[r].term # "NO_CONTENT")
                   => resp[r].term = "DEGRADED_RESPONSE"

\* C2: /chat, unconfigured, has called the gateway once (no network call was
\* made) and ends with its fallback reply
C2_ChatEntersGateway ==
    \E r \in Requests :
        /\ LLM_PROVIDER = "openai"
        /\ OPENAI_API_KEY = None
        /\ req[r].handler = "chat"
        /\ pc[r] = "done"
        /\ gateway_calls[r] = 1
        /\ net_calls[r] = 0
        /\ resp[r].term = "ERROR_FALLBACK"

\* the gateway gave the handler no text: the failure value or the empty text
C3_NoText(r) == got[r] \in {Val(JNull), Val(JStr(""))}

\* C3: in every feature handler, when the backend is configured and the
\* gateway call fails or returns empty text, the request ends in
\* ERROR_FALLBACK.
C3_NoTextEndsInErrorFallback ==
    \A r \in Requests :
        (pc[r] = "done" /\ req[r].handler \in ToolHandlers /\ ~Unconfigured /\ C3_NoText(r))
            => resp[r].term = "ERROR_FALLBACK"

\* C3: the model answers with the empty text and /api/ads/optimizer ends in
\* RAW_TEXT_CARRIER
C3_EmptyTextCarried ==
    \E r \in Requests :
        /\ pc[r] = "done"
        /\ req[r].handler = "ads_optimizer"
        /\ ~Unconfigured
        /\ got[r] = Val(JStr(""))
        /\ resp[r].term = "RAW_TEXT_CARRIER"

\* C4: for every text and platform, the score _evaluate_scroll_stop returns is
\* an integer from 0 to 100.
C4_ScoreInRange == spc = "done" => score \in 0..100

\* C4: a long question with a number, strong words and a call to action has
\* been scored for a fast feed
C4_Scored ==
    /\ spc = "done"
    /\ topic = Some("¿Quieres VENTAS? y y y y")
    /\ platform = "tiktok"
    /\ score = 81

\* no text: nothing, or white space only
C5_Blank(t) == \A i \in 1..Len(OrEmpty(t)) : IsSpace(Ch(OrEmpty(t), i))

\* C5: for an empty, whitespace-only or missing text and any platform the
\* scorer returns score 0 and exactly one note: no step is applied, the
\* platform adjustment included.
C5_NoTextScoresZero ==
    (spc = "done" /\ C5_Blank(topic)) => (score = 0 /\ Len(details) = 1)

\* C5: a text of white space only has been scored for a fast feed
C5_WhitespaceScored ==
    /\ spc = "done"
    /\ topic = Some("\t \t")
    /\ platform = "instagram"
    /\ score = 0
    /\ details = <<"No hay texto para evaluar. Escribe al menos una frase clara.">>

\* C6: _scroll_level gives every score exactly one level: 80 and more ALTO,
\* 55 to 79 MEDIO, 54 and less BAJO.
C6_LevelBoundaries ==
    spc \in {"classified", "done"} =>
        /\ level \in {"ALTO", "MEDIO", "BAJO"}
        /\ level = "ALTO" <=> score >= 80
        /\ level = "MEDIO" <=> (55 <= score /\ score <= 79)
        /\ level = "BAJO" <=> score <= 54
        /\ score \in {79, 55} => level = "MEDIO"
        /\ score = 80 => level = "ALTO"
        /\ score = 54 => level = "BAJO"

\* C6: the score 80, the lowest of the high level, has been classified
C6_EightyIsHigh == spc = "classified" /\ score = 80 /\ level = "ALTO"

C7_Length(w) == IF 4 <= w /\ w <= 10 THEN 25 ELSE IF 2 <= w /\ w <= 14 THEN 15 ELSE 5

C7_Strong(n) == IF n >= 2 THEN 18 ELSE IF n = 1 THEN 10 ELSE 4

C7_Brevity(w) == IF w <= 18 THEN 12 ELSE IF w <= 25 THEN 6 ELSE 2

C7_Platform(w, p) ==
    IF p \in {"instagram", "tiktok", "threads", "youtube"}
    THEN IF w <= 14 THEN 8 ELSE -5
    ELSE IF p = "linkedin" /\ 6 <= w /\ w <= 18 THEN 6 ELSE 0

C7_Sum(text, w, p) ==
    C7_Length(w)
    + (IF HasNumber(text) THEN 10 ELSE 0)
    + (IF HasQuestion(text) THEN 10 ELSE 0)
    + C7_Strong(count_strong_words(text))
    + C7_Brevity(w)
    + (IF HasCta(Lower(text)) THEN 8 ELSE 0)
    + C7_Platform(w, p)

C7_Expected(text, p) ==
    LET sum == C7_Sum(text, word_count(text), p)
    IN  IF sum < 0 THEN 0 ELSE IF sum > 100 THEN 100 ELSE sum

\* C7: for every text that is not blank and every platform, the score is the
\* sum of the documented contributions (length, digit, question mark, strong
\* words, brevity, soft call to action, platform adjustment) clamped to 0..100.
C7_ScoreIsDocumentedSum ==
    (spc = "done" /\ ~C5_Blank(topic)) =>
        score = C7_Expected(Strip(OrEmpty(topic)), platform)

\* C7: a text of eighteen words, the last of the short ones, has been scored for
\* LinkedIn
C7_EighteenWordsScored ==
    /\ spc = "done"
    /\ platform = "linkedin"
    /\ topic # None
    /\ word_count(OrEmpty(topic)) = 18
    /\ HasNumber(OrEmpty(topic))
    /\ score = 5 + 10 + 10 + 12 + 6

\* C8: the scorer is deterministic and stateless: any two calls with the same
\* text and platform, whatever calls were made before and between them,
\* return the same score, the same notes and the same advice.
C8_SameCallSameResult ==
    \A i, j \in 1..Len(log) :
        (log[i].topic = log[j].topic /\ log[i].platform = log[j].platform)
            => (/\ log[i].score = log[j].score
                /\ log[i].details = log[j].details
                /\ log[i].advice = log[j].advice)

\* C8: a text has been scored, then another, then the first again
C8_CalledAgain ==
    /\ Len(log) = 3
    /\ spc = "done"
    /\ log[1].topic = log[3].topic
    /\ log[1].platform = log[3].platform
    /\ log[2].topic # log[1].topic
    /\ Len(log[1].details) = 7
    /\ Len(log[2].details) = 1

\* C9: every request to a handler of the pipeline, once its gateway call has
\* returned or was never made, ends in exactly one of the four terminal states
\* DEGRADED_RESPONSE, ERROR_FALLBACK, TYPED_RESPONSE and RAW_TEXT_CARRIER.
C9_EndsInOneOfFour ==
    \A r \in Requests :
        (pc[r] = "done" /\ req[r].handler \in PipelineHandlers)
            => resp[r].term \in FourTerminals

\* C9: /chat was given a list as the content and ends with the validation
\* error of its response model, in none of the four terminal states
C9_ChatEndsInFault ==
    \E r \in Requests :
        /\ pc[r] = "done"
        /\ req[r].handler = "chat"
        /\ got[r] = Val(JList(<<JStr("hola")>>))
        /\ resp[r] = Fault("ValidationError")

\* data["choices"][0]["message"]["content"] is there
C10_ChoicesShape(b) ==
    /\ b.t = "obj" /\ HasKey(b, "choices")
    /\ Lookup(b, "choices").t = "list" /\ Len(Lookup(b, "choices").xs) >= 1
    /\ Lookup(b, "choices").xs[1].t = "obj" /\ HasKey(Lookup(b, "choices").xs[1], "message")
    /\ Lookup(Lookup(b, "choices").xs[1], "message").t = "obj"
    /\ HasKey(Lookup(Lookup(b, "choices").xs[1], "message"), "content")

\* data["message"]["content"] is there
C10_MessageShape(b) ==
    /\ b.t = "obj" /\ HasKey(b, "message")
    /\ Lookup(b, "message").t = "obj" /\ HasKey(Lookup(b, "message"), "content")

\* data["content"] is there
C10_ContentShape(b) == b.t = "obj" /\ HasKey(b, "content")

\* the exchange failed: transport error, status outside 2xx, a body that is
\* not JSON or is of none of the shapes the backend's reader knows
C10_Failed(net) ==
    \/ net.kind = "error"
    \/ net.status \notin 200..299
    \/ ~net.json.ok
    \/ /\ ~C10_ChoicesShape(net.json.v)
       /\ ~(LLM_PROVIDER = "local"
               /\ (C10_MessageShape(net.json.v) \/ C10_ContentShape(net.json.v)))

\* C10: the gateway never raises to its caller; after a transport error, a
\* status outside 2xx or a malformed or unrecognised body it returns None.
C10_GatewayNeverRaises ==
    \A r \in Requests :
        (gateway_calls[r] > 0 /\ pc[r] \in {"returned", "done"}) =>
            /\ got[r].ok
            /\ (outcome[r].some /\ C10_Failed(outcome[r].v)) => got[r] = Val(JNull)

\* C10: the remote backend answered 500 and the gateway returned None
C10_ServerErrorGivesNone ==
    \E r \in Requests :
        /\ pc[r] = "returned"
        /\ LLM_PROVIDER = "openai"
        /\ outcome[r].some
        /\ outcome[r].v.kind = "response"
        /\ outcome[r].v.status = 500
        /\ got[r] = Val(JNull)

\* C11: with the remote backend selected and no credential configured no
\* network call is attempted, and the gateway is not where this is decided:
\* it is never entered in that configuration, so it never returns None
\* without having posted anything.
C11_NoSilentNoOpInGateway ==
    (LLM_PROVIDER = "openai" /\ OrEmpty(OPENAI_API_KEY) = "") =>
        \A r \in Requests :
            /\ net_calls[r] = 0
            /\ ~(pc[r] = "returned" /\ gateway_calls[r] > 0 /\ ~outcome[r].some)

\* C11: the gateway, entered by /chat with an empty credential, has returned
\* None without a network call
C11_GatewayReturnedSilently ==
    \E r \in Requests :
        /\ LLM_PROVIDER = "openai"
        /\ OPENAI_API_KEY = Some("")
        /\ req[r].handler = "chat"
        /\ pc[r] = "returned"
        /\ gateway_calls[r] = 1
        /\ net_calls[r] = 0
        /\ post[r] = None
        /\ got[r] = Val(JNull)

C12_ChoicesText(b) == Lookup(Lookup(Lookup(b, "choices").xs[1], "message"), "content")

C12_MessageText(b) == Lookup(Lookup(b, "message"), "content")

C12_HasChoices(b) == b.t = "obj" /\ HasKey(b, "choices")

\* the contents a body offers under one of the three shapes
C12_Offered(b) ==
    (IF C10_ChoicesShape(b) THEN {C12_ChoicesText(b)} ELSE {})
    \cup (IF C10_MessageShape(b) THEN {C12_MessageText(b)} ELSE {})
    \cup (IF C10_ContentShape(b) THEN {Lookup(b, "content")} ELSE {})

\* the local backend answered 200 with a JSON body
C12_Answered(r) ==
    /\ LLM_PROVIDER = "local"
    /\ pc[r] \in {"returned", "done"}
    /\ outcome[r].some
    /\ outcome[r].v.kind = "response"
    /\ outcome[r].v.status = 200
    /\ outcome[r].v.json.ok

\* C12: the local backend takes the text from three shapes of body and no
\* other, tried in this order, the first whose key is there deciding:
\* choices[0].message.content, message.content with message an object, a bare
\* content.  A body of none of the three gives None, and what is returned is
\* never anything but None or a content the body holds under one of the three.
C12_ThreeShapesOnly ==
    \A r \in Requests :
        C12_Answered(r) =>
            LET b == outcome[r].v.json.v
            IN  /\ C10_ChoicesShape(b) => got[r] = Val(C12_ChoicesText(b))
                /\ (~C12_HasChoices(b) /\ C10_MessageShape(b))
                       => got[r] = Val(C12_MessageText(b))
                /\ (~C12_HasChoices(b) /\ ~C10_MessageShape(b) /\ C10_ContentShape(b))
                       => got[r] = Val(Lookup(b, "content"))
                /\ (~C10_ChoicesShape(b) /\ ~C10_MessageShape(b) /\ ~C10_ContentShape(b))
                       => got[r] = Val(JNull)
                /\ got[r].ok
                /\ got[r].v = JNull \/ got[r].v \in C12_Offered(b)

\* C12: the local backend answered {"response": "hola"}, a fourth shape, and
\* the gateway returned None
C12_FourthShapeGivesNone ==
    \E r \in Requests :
        /\ C12_Answered(r)
        /\ pc[r] = "returned"
        /\ outcome[r].v.json.v = JObj(<< <<"response", JStr("hola")>> >>)
        /\ got[r] = Val(JNull)

\* C13: a request goes through the gateway at most once and the gateway posts
\* at most once: after an attempt, failed or not, nothing is posted again.
C13_AtMostOneAttempt ==
    \A r \in Requests :
        /\ gateway_calls[r] <= 1
        /\ net_calls[r] <= gateway_calls[r]
        /\ pc[r] \in {"returned", "done"} => post[r] = None

\* C13: the one attempt of /api/ads/optimizer ended in a transport error and the
\* handler has answered with its fallback, nothing having been posted again
C13_FailedOnceThenFallback ==
    \E r \in Requests :
        /\ pc[r] = "done"
        /\ req[r].handler = "ads_optimizer"
        /\ outcome[r] = Some(NetError)
        /\ gateway_calls[r] = 1
        /\ net_calls[r] = 1
        /\ resp[r].term = "ERROR_FALLBACK"

\* the fields each tool handler reads from the parsed object, under the key of
\* the same name, each with the zero-value of its type
C14_Schema(h) ==
    CASE h = "ads_optimizer" ->
           << <<"summary", "">>, <<"recommended_strategy", "">>, <<"budget_distribution", <<>>>>,
              <<"audiences", <<>>>>, <<"creatives", <<>>>>, <<"ctas", <<>>>> >>
      [] h = "content_analyzer" ->
           << <<"summary", "">>, <<"strengths", <<>>>>, <<"weaknesses", <<>>>>,
              <<"recommendations", <<>>>>, <<"optimized_caption", "">>, <<"keyword_gaps", <<>>>>,
              <<"performance_score", 0>>, <<"ad_recommendation", "">> >>
      [] h = "seo_audit" ->
           << <<"summary", "">>, <<"priority_fixes", <<>>>>, <<"quick_wins", <<>>>>,
              <<"recommended_keywords", <<>>>>, <<"checklist_90_days", <<>>>> >>
      [] h = "content_generator" ->
           << <<"idea", "">>, <<"hooks", <<>>>>, <<"script", "">>, <<"variants", <<>>>>,
              <<"recommended_format", "">>, <<"difficulty", "">>, <<"ctas", <<>>>>,
              <<"scroll_stopper_score", 0>>, <<"virality_probability", "">>,
              <<"differentiation_level", "">> >>
      [] h = "hook_optimizer" ->
           << <<"improved_hook", "">>, <<"variants", <<>>>>, <<"explanation", "">>,
              <<"recommended_format", "">>, <<"suggested_keyword", "">> >>
      [] h = "slide_generator" ->
           << <<"slides", <<>>>>, <<"global_caption", "">>, <<"keyword", "">>,
              <<"funnel_stage", "">> >>
      [] h = "funnel_map" ->
           << <<"stages", <<>>>>, <<"keyword", "">>, <<"auto_messages", <<>>>>,
              <<"sequence_24h", <<>>>>, <<"metrics_focus", <<>>>> >>
      [] h = "ads_predictor" ->
           << <<"estimated_ctr", 0>>, <<"estimated_cpc", 0>>, <<"estimated_cpm", 0>>,
              <<"expected_result_summary", "">>, <<"risk_level", "">>,
              <<"recommendations", <<>>>> >>
      [] h = "video_script" ->
           << <<"beats", <<>>>>, <<"hook", "">>, <<"script", "">>, <<"closing_cta", "">>,
              <<"broll_ideas", <<>>>> >>
      [] h = "aid_core_chat" ->
           << <<"reply", "">>, <<"suggestions", <<>>>>, <<"next_actions", <<>>>> >>

\* a tool handler has answered after the gateway gave it a text
C14_AnsweredText(r) ==
    /\ pc[r] = "done"
    /\ req[r].handler \in ToolHandlers
    /\ gateway_calls[r] > 0
    /\ got[r].v.t = "str"

\* the gateway's text parses as a JSON object
C14_IsObject(r) == json_loads(got[r].v).ok /\ json_loads(got[r].v).v.t = "obj"

\* every field of the schema whose key the object lacks has its zero-value
C14_MissingAreZero(h, obj, body) ==
    \A i \in 1..Len(C14_Schema(h)) :
        ~HasKey(obj, C14_Schema(h)[i][1]) => body[C14_Schema(h)[i][1]] = C14_Schema(h)[i][2]

\* C14: when the gateway's text parses as a JSON object, every tool handler
\* ends in TYPED_RESPONSE, and each expected field the object lacks has its
\* zero-value (empty string, empty list, 0); extra keys change nothing.
C14_ObjectGivesTypedDefaults ==
    \A r \in Requests :
        (C14_AnsweredText(r) /\ C14_IsObject(r)) =>
            /\ resp[r].term = "TYPED_RESPONSE"
            /\ C14_MissingAreZero(req[r].handler, json_loads(got[r].v).v, resp[r].body)

\* C14: /api/content/slide-generator was given {"a":1} and answers with one
\* slide, its placeholder, where the object had no slides
C14_PlaceholderSlide ==
    \E r \in Requests :
        /\ C14_AnsweredText(r)
        /\ req[r].handler = "slide_generator"
        /\ got[r] = Val(JStr("{\"a\":1}"))
        /\ resp[r].term = "TYPED_RESPONSE"
        /\ Len(resp[r].body.slides) = 1
        /\ resp[r].body.slides[1].title = "Sin slides generadas"

\* the free texts of a response: its string fields and those of its records
C15_FreeTexts(h, body) ==
    CASE h = "ads_optimizer" -> {body.summary, body.recommended_strategy}
      [] h = "content_analyzer" ->
           {body.summary, body.optimized_caption, body.ad_recommendation}
      [] h = "seo_audit" ->
           {body.summary, body.hidden_seo.notes, body.visible_seo.content_focus,
            body.visible_seo.readability, body.visible_seo.keyword_usage}
      [] h = "content_generator" ->
           {body.idea, body.script, body.recommended_format, body.difficulty,
            body.virality_probability, body.differentiation_level}
      [] h = "hook_optimizer" ->
           {body.improved_hook, body.explanation, body.recommended_format,
            body.suggested_keyword}
      [] h = "slide_generator" ->
           {body.global_caption, body.keyword, body.funnel_stage}
           \cup UNION {{body.slides[i].title, body.slides[i].body, body.slides[i].cta} :
                           i \in 1..Len(body.slides)}
      [] h = "funnel_map" ->
           {body.keyword}
           \cup UNION {{body.stages[i].name, body.stages[i].goal, body.stages[i].content_role,
                        body.stages[i].message_example} : i \in 1..Len(body.stages)}
      [] h = "ads_predictor" -> {body.expected_result_summary, body.risk_level}
      [] h = "video_script" -> {body.hook, body.script, body.closing_cta}
      [] h = "aid_core_chat" -> {body.reply}

\* the gateway's text does not parse as JSON
C15_NotJson(r) == ~json_loads(got[r].v).ok

\* C15: when the gateway's text does not parse as JSON, every tool handler
\* answers with its raw-text carrier, one free-text field of which is the raw
\* text itself, character for character.
C15_CarrierHoldsRawVerbatim ==
    \A r \in Requests :
        (C14_AnsweredText(r) /\ C15_NotJson(r)) =>
            /\ resp[r].term = "RAW_TEXT_CARRIER"
            /\ got[r].v.s \in C15_FreeTexts(req[r].handler, resp[r].body)

\* C15: /api/content/hook-optimizer was given "not json" and carries it behind a
\* sentence of its own
C15_HookCarriesPrefixed ==
    \E r \in Requests :
        /\ C14_AnsweredText(r)
        /\ req[r].handler = "hook_optimizer"
        /\ got[r] = Val(JStr("not json"))
        /\ resp[r].term = "RAW_TEXT_CARRIER"
        /\ resp[r].body.explanation =
               "No se pudo parsear el JSON. Respuesta cruda del modelo: not json"

\* ---- C16 ----
\* the fields of the response models that are free texts
C16_TextFields ==
    {"summary", "recommended_strategy", "optimized_caption", "ad_recommendation",
     "idea", "script", "recommended_format", "difficulty", "virality_probability",
     "differentiation_level", "improved_hook", "explanation", "suggested_keyword",
     "global_caption", "keyword", "funnel_stage", "expected_result_summary",
     "risk_level", "hook", "closing_cta", "reply"}

\* the schema fields of handler h that are lists or numbers, with their zero
C16_Structured(h) ==
    SelectSeq(C14_Schema(h), LAMBDA p : p[1] \notin C16_TextFields)

\* the list in which slide_generator and funnel_map carry the raw text
C16_CarrierList(h) ==
    CASE h = "slide_generator" -> "slides"
      [] h = "funnel_map" -> "stages"
      [] OTHER -> "-"

\* field p of the body is emptied: it holds its zero, or it is the list
\* that carries the raw text and holds that one record only
C16_Emptied(h, body, p) ==
    \/ body[p[1]] = p[2]
    \/ p[1] = C16_CarrierList(h) /\ Len(body[p[1]]) = 1

\* C16: in the raw-text carrier of every handler, every list and every
\* number of the response is emptied to its zero-value; only free texts
\* (the carrier and a note) are populated.
C16_CarrierStructuredEmptied ==
    \A r \in Requests :
        (C14_AnsweredText(r) /\ resp[r].term = "RAW_TEXT_CARRIER") =>
            \A i \in 1..Len(C16_Structured(req[r].handler)) :
                C16_Emptied(req[r].handler, resp[r].body,
                            C16_Structured(req[r].handler)[i])

\* C16 witness: ads_predictor answers a text that is not JSON with a carrier
\* holding the estimates 0.8 / 1.2 / 7.0 (in tenths) and two recommendations
C16_PredictorCarrierPopulated ==
    \E r \in Requests :
        /\ C14_AnsweredText(r) /\ req[r].handler = "ads_predictor"
        /\ got[r] = Val(JStr("not json")) /\ resp[r].term = "RAW_TEXT_CARRIER"
        /\ resp[r].body.estimated_ctr = 8
        /\ resp[r].body.estimated_cpc = 12
        /\ resp[r].body.estimated_cpm = 70
        /\ Len(resp[r].body.recommendations) = 2

\* ---- C17 ----
\* the gateway's text parses as JSON (of the expected shape or not)
C17_Parses(r) == json_loads(got[r].v).ok

\* C17: a gateway text that parses as JSON, whatever its shape (an array, a
\* number, a string or null at top level, a null or a non-list where a list
\* is expected, a non-number where a number is expected), ends the handler in
\* TYPED_RESPONSE or in RAW_TEXT_CARRIER, never in ERROR_FALLBACK or a fault.
C17_MalformedJsonNormalized ==
    \A r \in Requests :
        (C14_AnsweredText(r) /\ C17_Parses(r)) =>
            resp[r].term \in {"TYPED_RESPONSE", "RAW_TEXT_CARRIER"}

\* C17 witness: content_analyzer is answered with the JSON array [1] and ends
\* in the fallback of a failed connection
C17_ArrayEndsInErrorFallback ==
    \E r \in Requests :
        /\ C14_AnsweredText(r) /\ req[r].handler = "content_analyzer"
        /\ got[r] = Val(JStr("[1]"))
        /\ json_loads(got[r].v).v.t = "list"
        /\ resp[r].term = "ERROR_FALLBACK"

\* ---- C18 ----
\* the scorer has returned for a text of more than 18 words
C18_LongScored == spc = "done" /\ word_count(Strip(OrEmpty(topic))) > 18

\* C18: for any text of more than 18 words, the score on a fast-feed platform
\* is exactly 5 lower than the score of the same text on linkedin; linkedin
\* adds nothing (it scores what a platform without adjustment scores), and
\* neither score is at a limit of 0..100 where clamping could hide the
\* difference.
C18_FastFeedFiveBelowLinkedin ==
    C18_LongScored =>
        /\ platform \in FAST_FEED =>
               /\ score = evaluate_scroll_stop(topic, "linkedin").score - 5
               /\ 0 < score /\ score < 100
        /\ platform = "linkedin" =>
               /\ score = evaluate_scroll_stop(topic, "generic").score
               /\ score = evaluate_scroll_stop(topic, "tiktok").score + 5
               /\ 0 < score /\ score < 100

\* C18 witness: a text of 20 words with a digit has been scored for tiktok:
\* 5 + 10 + 4 + 6 - 5
C18_TwentyWordsOnFastFeed ==
    /\ C18_LongScored
    /\ platform = "tiktok"
    /\ word_count(OrEmpty(topic)) = 20
    /\ HasNumber(OrEmpty(topic))
    /\ score = 20
    /\ evaluate_scroll_stop(topic, "linkedin").score = 25

\* ---- C19 ----
\* the vocabulary entries found as substrings of the lower-cased text
C19_Matches(text) ==
    {STRONG_WORDS[i] : i \in {j \in 1..Len(STRONG_WORDS) : Contains(Lower(text), STRONG_WORDS[j])}}

\* what the six other steps contribute
C19_Others(text, w, p) ==
    C7_Length(w)
    + (IF HasNumber(text) THEN 10 ELSE 0)
    + (IF HasQuestion(text) THEN 10 ELSE 0)
    + C7_Brevity(w)
    + (IF HasCta(Lower(text)) THEN 8 ELSE 0)
    + C7_Platform(w, p)

\* the strong-word contribution to the score of the text scored
C19_Contribution ==
    score - C19_Others(Strip(OrEmpty(topic)), word_count(Strip(OrEmpty(topic))), platform)

\* the fourth note tells which branch of the strong-word step was taken
C19_Note(n) ==
    IF n >= 2 THEN "[OK] Usa varias palabras fuertes (errores, sistema, resultados, etc.)."
    ELSE IF n = 1 THEN "[~] Usa al menos una palabra fuerte. Podrías reforzar con otra más."
    ELSE "[!] Falta vocabulario que active decisión (errores, sistema, resultados...)."

\* C19: with exactly two vocabulary entries found as substrings of the
\* lower-cased text the strong-word contribution is +18 whichever two they
\* are, with exactly one it is +10 and with none it is +4.
C19_StrongContribution ==
    (spc = "done" /\ ~C5_Blank(topic)) =>
        LET n == Cardinality(C19_Matches(Strip(OrEmpty(topic))))
        IN  /\ n = 2 => C19_Contribution = 18
            /\ n = 1 => C19_Contribution = 10
            /\ n = 0 => C19_Contribution = 4
            /\ n <= 2 => details[4] = C19_Note(n)

\* C19 witness: a text in capitals whose two matches are "ventas" and
\* "venta" has been scored and got +18
C19_TwoMatchesInCapitals ==
    /\ spc = "done"
    /\ topic = Some("VENTAS? y")
    /\ C19_Matches("VENTAS? y") = {"ventas", "venta"}
    /\ C19_Contribution = 18

\* ---- C20 ----
\* C20: for every text that is not blank and every platform, each of the seven
\* scoring steps appends one note whatever branch it takes: details has
\* seven entries.
C20_SevenNotes ==
    (spc = "done" /\ ~C5_Blank(topic)) => Len(details) = 7

\* C20 witness: a text of more than 18 words has been scored for linkedin and
\* the platform step left no note: six notes, the last one that of the
\* call-to-action step
C20_LinkedinLongLeavesSix ==
    /\ C18_LongScored
    /\ platform = "linkedin"
    /\ Len(details) = 6
    /\ details[6] \in {"[OK] Hay un llamado suave a la acción (CTA) dentro del hook.",
                       "[~] No se percibe un CTA claro. Recuerda la mecánica de palabra clave."}

\* ---- C21 ----
\* the opening sentence of the advice for a platform
C21_Opening(p) ==
    IF p = "linkedin"
    THEN "LinkedIn premia claridad, datos y contexto de negocio. "
    ELSE "Esta red premia hooks claros, emocionales y muy directos. "

\* the paragraph of the advice for a level
C21_Paragraph(l) ==
    CASE l = "ALTO" -> "Este tema tiene muy buen potencial de detener el scroll. Puedes pasar a estructurar el resto del post (caption, slides o guion) y definir tu palabra clave del funnel."
      [] l = "MEDIO" -> "El stop scroll es aceptable, pero con 1-2 ajustes (hacerlo más corto, sumar un número o una promesa concreta) podrías llevarlo a un nivel alto."
      [] l = "BAJO" -> "El hook es débil para frenar el scroll. Conviene reformularlo: hazlo más corto, convierte la idea en pregunta o agrega una promesa de resultado clara."

\* C21: for every score the advice is the paragraph of the level that
\* _scroll_level gives the score, opened by the LinkedIn sentence exactly when
\* the platform is linkedin and by the general sentence on every other
\* platform; it is never empty.
C21_AdviceFollowsLevel ==
    spc \in {"classified", "done"} =>
        /\ advice = C21_Opening(platform) \o C21_Paragraph(level)
        /\ advice # ""
        /\ (SubSeq(advice, 1, 8) = "LinkedIn") <=> (platform = "linkedin")

\* C21 witness: the score 55, the lowest of the middle level, has got the
\* middle paragraph with the LinkedIn opening
C21_FiftyFiveOnLinkedin ==
    /\ spc = "classified"
    /\ score = 55
    /\ platform = "linkedin"
    /\ level = "MEDIO"
    /\ advice = "LinkedIn premia claridad, datos y contexto de negocio. El stop scroll es aceptable, pero con 1-2 ajustes (hacerlo más corto, sumar un número o una promesa concreta) podrías llevarlo a un nivel alto."

\* ---- C22 ----
\* request r went to /api/content/scroll-stop and has been answered
C22_Answered(r) == pc[r] = "done" /\ req[r].handler = "scroll_stop"

\* the request of the scenario
C22_Scenario(r) ==
    /\ C22_Answered(r)
    /\ req[r].platform = "instagram"
    /\ req[r].topic = "3 errores que te cuestan clientes"

\* C22: /api/content/scroll-stop makes no gateway call in any configuration;
\* its level is _scroll_level of its score and its advice is not empty.  For
\* instagram and '3 errores que te cuestan clientes' the score is the
\* heuristic's: length 25, digit 10, no question, two strong words 18,
\* brevity 12, no call to action, fast feed 8; and the advice opens with the
\* general sentence, not the LinkedIn one.
C22_ScrollStopIsHeuristicOnly ==
    \A r \in Requests :
        /\ C22_Answered(r) =>
               /\ gateway_calls[r] = 0 /\ net_calls[r] = 0
               /\ outcome[r] = None
               /\ resp[r].status = 200
               /\ resp[r].body.level = scroll_level(resp[r].body.score)
               /\ resp[r].body.advice # ""
        /\ C22_Scenario(r) =>
               /\ resp[r].body.score = 25 + 10 + 0 + 18 + 12 + 0 + 8
               /\ resp[r].body.level = "MEDIO"
               /\ Len(resp[r].body.details) = 7
               /\ SubSeq(resp[r].body.advice, 1, 58)
                      = "Esta red premia hooks claros, emocionales y muy directos. "

\* C22 witness: the scenario has been answered while the backend was
\* configured, with 73 points
C22_ScenarioAnsweredConfigured ==
    \E r \in Requests :
        /\ C22_Scenario(r)
        /\ ~Unconfigured
        /\ resp[r].body.score = 73

\* ---- C23 ----
\* a tool endpoint has answered a request made while the backend is
\* unconfigured
C23_AnsweredUnconfigured(r) ==
    pc[r] = "done" /\ req[r].handler \in ToolHandlers /\ Unconfigured

\* C23: any tool endpoint called while the backend is unconfigured answers
\* 200 with its degraded literal whatever the request holds; for
\* /api/ads/optimizer that is four empty lists, an empty recommended_strategy
\* and a summary telling that the key is missing.
C23_UnconfiguredGivesDegraded ==
    \A r \in Requests :
        C23_AnsweredUnconfigured(r) =>
            /\ resp[r].status = 200
            /\ resp[r].term = "DEGRADED_RESPONSE"
            /\ gateway_calls[r] = 0
            /\ req[r].handler = "ads_optimizer" =>
                   /\ resp[r].body.budget_distribution = <<>>
                   /\ resp[r].body.audiences = <<>>
                   /\ resp[r].body.creatives = <<>>
                   /\ resp[r].body.ctas = <<>>
                   /\ resp[r].body.recommended_strategy = ""
                   /\ Contains(resp[r].body.summary, "no tiene configurada la clave")

\* C23 witness: /api/seo/audit, called unconfigured with neither text nor
\* html, answers with its no-content literal, not with the degraded one
C23_SeoAnswersNoContent ==
    \E r \in Requests :
        /\ C23_AnsweredUnconfigured(r)
        /\ req[r].handler = "seo_audit"
        /\ req[r].text = None /\ req[r].html = None
        /\ resp[r].term = "NO_CONTENT"
        /\ resp[r].body.hidden_seo.notes = "Sin contenido para analizar."

\* ---- C24 ----
\* /api/content/hook-optimizer has answered request r
C24_Answered(r) == pc[r] = "done" /\ req[r].handler = "hook_optimizer"

\* the heuristic's score of a hook on the platform of request r
C24_Evaluate(r, hook) == evaluate_scroll_stop(Some(hook), req[r].platform).score

\* C24: in every terminal state of the hook optimizer both hooks are scored
\* by the same heuristic on the request's platform and both levels are
\* _scroll_level of their scores; in the degraded, error-fallback and
\* raw-text-carrier states the improved hook is the original hook.
C24_BothHooksScored ==
    \A r \in Requests :
        C24_Answered(r) =>
            /\ resp[r].status = 200
            /\ resp[r].body.original_hook = Strip(req[r].hook)
            /\ resp[r].body.original_score = C24_Evaluate(r, resp[r].body.original_hook)
            /\ resp[r].body.improved_score = C24_Evaluate(r, resp[r].body.improved_hook)
            /\ resp[r].body.original_level = scroll_level(resp[r].body.original_score)
            /\ resp[r].body.improved_level = scroll_level(resp[r].body.improved_score)
            /\ resp[r].term \in {"DEGRADED_RESPONSE", "ERROR_FALLBACK", "RAW_TEXT_CARRIER"} =>
                   resp[r].body.improved_hook = resp[r].body.original_hook

\* C24 witness: the model improved the hook "plan" to "3 errores de ventas",
\* and the two hooks have different scores
C24_ImprovedHookScoredAnew ==
    \E r \in Requests :
        /\ C24_Answered(r)
        /\ resp[r].term = "TYPED_RESPONSE"
        /\ resp[r].body.original_hook = "plan"
        /\ resp[r].body.improved_hook = "3 errores de ventas"
        /\ resp[r].body.improved_score > resp[r].body.original_score

\* ---- C25 ----
\* what the gateway gives request r from the exchange of r alone
C25_OwnResult(r) ==
    IF outcome[r].some THEN GatewayReturn(outcome[r].v) ELSE Val(JNull)

\* the response of request r as its own body, the configuration and its own
\* gateway result determine it
C25_Alone(r) ==
    IF req[r].handler = "scroll_stop"
    THEN Resp("HEURISTIC", scroll_stop_response(req[r]))
    ELSE IF req[r].handler = "seo_audit" /\ seo_no_content(req[r])
         THEN Resp("NO_CONTENT", seo_audit_no_content(req[r]).v)
         ELSE IF ChecksConfig(req[r]) /\ Unconfigured
              THEN Resp("DEGRADED_RESPONSE", Degraded(req[r].handler, req[r]).v)
              ELSE Finish(req[r], C25_OwnResult(r))

\* what the gateway returned to a request and what a request answered are
\* its own
C25_Own ==
    \A r \in InFlight :
        /\ pc[r] = "returned" => got[r] = C25_OwnResult(r)
        /\ pc[r] = "done" => resp[r] = C25_Alone(r)

\* a step is the step of one request: it leaves what the other requests hold
\* as it was
C25_OneRequestSteps ==
    \E r \in InFlight :
        \A q \in InFlight \ {r} :
            /\ pc'[q] = pc[q] /\ req'[q] = req[q] /\ post'[q] = post[q]
            /\ outcome'[q] = outcome[q] /\ got'[q] = got[q] /\ resp'[q] = resp[q]
            /\ gateway_calls'[q] = gateway_calls[q] /\ net_calls'[q] = net_calls[q]

\* C25: with requests running concurrently, in any interleaving of their
\* steps and outstanding gateway calls, the terminal state and the response
\* of each request depend only on its own body, the configuration and its own
\* gateway result; no step writes the configuration or any other state the
\* requests share, or what another request holds.
C25_RequestsIndependent ==
    /\ []C25_Own
    /\ [][C25_OneRequestSteps /\ UNCHANGED <<cvars, svars>>]_vars

\* C25 witness: two requests had their gateway calls outstanding together;
\* the first has answered from its own result while the result of the
\* second, a different one, waits to be read
C25_TwoResultsTwoRequests ==
    /\ pc[1] = "done" /\ pc[2] = "returned"
    /\ req[1].handler = "ads_optimizer" /\ req[2].handler = "ads_optimizer"
    /\ resp[1].term = "TYPED_RESPONSE"
    /\ outcome[2] = Some(NetError)
    /\ got[2] = Val(JNull)

\* ---- C26 ----
\* /chat or /api/chat/aid has answered request r with a body
C26_Flagged(r) ==
    /\ pc[r] = "done"
    /\ req[r].handler \in {"chat", "aid_core_chat"}
    /\ resp[r].status = 200

\* C26: in /chat and /api/chat/aid, fallback is false exactly when the
\* response carries a model result (/chat: the gateway returned a text, which
\* is the reply; /api/chat/aid: TYPED_RESPONSE) and true in every degraded,
\* error-fallback and raw-text-carrier response.
C26_FallbackFlagTellsFailure ==
    \A r \in Requests :
        C26_Flagged(r) =>
            /\ resp[r].term \in FourTerminals
            /\ resp[r].body.fallback = (resp[r].term # "TYPED_RESPONSE")
            /\ req[r].handler = "chat" =>
                   /\ resp[r].body.fallback = (got[r] = Val(JNull))
                   /\ (~resp[r].body.fallback /\ got[r].v.t = "str") =>
                          resp[r].body.reply = got[r].v.s
            /\ (req[r].handler = "aid_core_chat" /\ ~resp[r].body.fallback) =>
                   /\ got[r].v.t = "str"
                   /\ json_loads(got[r].v).ok

\* C26 witness: /api/chat/aid was given a text that is not JSON and answers
\* with it as the reply, flagged as a fallback
C26_CarrierIsFlagged ==
    \E r \in Requests :
        /\ C26_Flagged(r)
        /\ req[r].handler = "aid_core_chat"
        /\ resp[r].term = "RAW_TEXT_CARRIER"
        /\ resp[r].body.reply = "not json"
        /\ resp[r].body.fallback

\* ---- C27 ----
\* C27: for every text that is not blank and every platform the score lies
\* between 6 and 91: the sum of the contributions never leaves 0..100, so the
\* final clamp changes nothing, and neither 0 nor a value above 91 is
\* returned.
C27_ScoreWithinSixAndNinetyOne ==
    (spc = "done" /\ ~C5_Blank(topic)) =>
        /\ 6 <= score /\ score <= 91
        /\ score = C7_Sum(Strip(OrEmpty(topic)), word_count(Strip(OrEmpty(topic))), platform)

\* C27 witness: 26 words without a digit, a question, a strong word or a
\* call to action, scored for a fast feed, get the least: 5 + 4 + 2 - 5
C27_LeastScore ==
    /\ spc = "done"
    /\ word_count(OrEmpty(topic)) = 26
    /\ platform \in FAST_FEED
    /\ score = 6

\* ---- C28 ----
\* the provider is neither openai nor local and no key is set
C28_OtherProviderNoKey ==
    LLM_PROVIDER \notin {"openai", "local"} /\ OrEmpty(OPENAI_API_KEY) = ""

\* C28: when the provider is neither 'openai' nor 'local' and no key is set,
\* the handlers' configuration check does not fire: a tool handler invokes
\* the gateway, which takes the remote route and returns failure without a
\* network call, and the request ends in ERROR_FALLBACK, not in
\* DEGRADED_RESPONSE; the health report says llm_configured = true.
C28_OtherProviderEndsInErrorFallback ==
    C28_OtherProviderNoKey =>
        /\ ~Unconfigured
        /\ \A r \in Requests :
               /\ net_calls[r] = 0 /\ post[r] = None
               /\ (pc[r] = "done" /\ req[r].handler \in ToolHandlers
                     /\ ~(req[r].handler = "seo_audit" /\ seo_no_content(req[r]))) =>
                      /\ gateway_calls[r] = 1
                      /\ got[r] = Val(JNull)
                      /\ resp[r].term = "ERROR_FALLBACK"
               /\ (pc[r] = "done" /\ req[r].handler = "root") =>
                      /\ resp[r].body.llm_configured
                      /\ resp[r].body.llm_provider = LLM_PROVIDER

\* C28 witness: with another provider and no key /api/ads/optimizer has
\* answered with its connection-error fallback
C28_OptimizerFellBack ==
    \E r \in Requests :
        /\ C28_OtherProviderNoKey
        /\ pc[r] = "done" /\ req[r].handler = "ads_optimizer"
        /\ gateway_calls[r] = 1 /\ net_calls[r] = 0
        /\ resp[r].term = "ERROR_FALLBACK"
        /\ Contains(resp[r].body.summary, "No se pudo conectar con el modelo de IA")

\* C29: the model identifier _call_local_chat sends is its model argument
\* whenever that is non-empty and LOCAL_LLM_MODEL only when it is empty or
\* None; every handler's call names "gpt-4.1-mini", so no request of a handler
\* posts LOCAL_LLM_MODEL to the local backend.
C29_LocalSendsHintElseConfigured ==
    \A r \in Requests :
        /\ pc[r] = "posted" =>
               /\ post[r].some
               /\ post[r].v.url = LOCAL_LLM_URL
               /\ OrEmpty(model) # "" => post[r].v.model = model.v
               /\ post[r].v.model = LOCAL_LLM_MODEL <=> OrEmpty(model) = ""
        /\ (pc[r] = "awaiting" /\ RoutesLocal) =>
               /\ post[r].some
               /\ post[r].v.url = LOCAL_LLM_URL
               /\ post[r].v.model = "gpt-4.1-mini"
               /\ post[r].v.model # LOCAL_LLM_MODEL

\* C29: the SEO audit's request is on its way to the local backend under the
\* name "gpt-4.1-mini", with "phi-2" configured
C29_HandlerHintSentToLocal ==
    \E r \in Requests :
        /\ pc[r] = "awaiting"
        /\ req[r].handler = "seo_audit"
        /\ LLM_PROVIDER = "local"
        /\ LOCAL_LLM_MODEL = "phi-2"
        /\ post[r] = Some([url |-> LOCAL_LLM_URL, model |-> "gpt-4.1-mini", bearer |-> None])

\* ---- C30 ----
\* request r is for /api/seo/audit and carries neither text nor html
C30_SeoWithoutContent(r) ==
    req[r].handler = "seo_audit" /\ seo_no_content(req[r])

\* C30: seo_audit checks the content before the configuration: a request with
\* neither text nor html never enters the gateway nor the network and ends in
\* the no-content response (HTTP 200) whether the backend is configured,
\* unconfigured or local; a request of seo_audit that ended in
\* DEGRADED_RESPONSE or called the gateway carried content.
C30_ContentCheckedBeforeConfig ==
    \A r \in Requests :
        /\ C30_SeoWithoutContent(r) =>
               /\ pc[r] \in {"start", "done"}
               /\ gateway_calls[r] = 0
               /\ net_calls[r] = 0
               /\ post[r] = None
               /\ pc[r] = "done" => (resp[r].status = 200 /\ resp[r].term = "NO_CONTENT")
        /\ (/\ req[r].handler = "seo_audit"
            /\ \/ pc[r] = "done" /\ resp[r].term = "DEGRADED_RESPONSE"
               \/ pc[r] = "awaiting"
               \/ gateway_calls[r] > 0)
               => ~seo_no_content(req[r])

\* C30: with the remote backend selected and no key set, /api/seo/audit
\* answered a request without content by the no-content response, the
\* gateway never entered
C30_NoContentWhileUnconfigured ==
    \E r \in Requests :
        /\ pc[r] = "done"
        /\ C30_SeoWithoutContent(r)
        /\ LLM_PROVIDER = "openai" /\ OPENAI_API_KEY = None
        /\ resp[r].term = "NO_CONTENT"
        /\ Contains(resp[r].body.summary, "no se envió contenido")
        /\ gateway_calls[r] = 0

====
